---------------------------- MODULE Spec2Model ----------------------------
(***************************************************************************)
(* Worker-side task handling core of the cadence client                    *)
(* (internal/internal_task_handlers.go): the history reorderer, the        *)
(* workflow execution context, the sticky cache and the workflow task      *)
(* handler, as a state machine of concurrent task-processing goroutines    *)
(* and cache-eviction goroutines.                                          *)
(***************************************************************************)
EXTENDS Integers, Sequences, FiniteSets, TLC

(***************************************************************************)
(* Bounds of the model.                                                    *)
(***************************************************************************)
\* capacity of the sticky cache (stickyCacheSize, 10000 by default, set by
\* SetStickyWorkflowCacheSize); small so that LRU eviction happens
MaxCacheSize == 1
\* number of workflowExecutionContextImpl objects ever allocated
MaxContexts == 2
\* number of tasks the pollers hand to ProcessWorkflowTask
MaxTasks == 2

Threads == {"t1", "t2"}
Runs == {"r1", "r2"}
CtxIds == 1..MaxContexts

(***************************************************************************)
(* History events.  Only the event id and the event type matter to the     *)
(* code modelled here.                                                     *)
(***************************************************************************)
WES == "WorkflowExecutionStarted"
DTScheduled == "DecisionTaskScheduled"
DTStarted == "DecisionTaskStarted"
DTCompleted == "DecisionTaskCompleted"
DTTimedOut == "DecisionTaskTimedOut"
DTFailed == "DecisionTaskFailed"
ActScheduled == "ActivityTaskScheduled"
ActCompleted == "ActivityTaskCompleted"
MarkerRecorded == "MarkerRecorded"

\* name is the marker name of a MarkerRecorded event, "" otherwise
Ev(i, ty) == [id |-> i, type |-> ty, name |-> ""]

\* the events of a history given by its event types: ids are dense from 1
EventsOf(types) == [i \in 1..Len(types) |-> Ev(i, types[i])]

isDecisionEvent(eventType) ==
    eventType \in {"WorkflowExecutionCompleted", "WorkflowExecutionFailed",
                   "WorkflowExecutionCanceled", "WorkflowExecutionContinuedAsNew",
                   ActScheduled, "ActivityTaskCancelRequested",
                   "RequestCancelActivityTaskFailed", "TimerStarted",
                   "TimerCanceled", "CancelTimerFailed", MarkerRecorded,
                   "StartChildWorkflowExecutionInitiated",
                   "RequestCancelExternalWorkflowExecutionInitiated",
                   "SignalExternalWorkflowExecutionInitiated"}

isPreloadMarkerEvent(event) == event.type = MarkerRecorded

isFullHistory(events) == Len(events) > 0 /\ events[1].type = WES

(***************************************************************************)
(* HistoryIterator: a restartable paged cursor over the whole history of   *)
(* the run.  pages is the full history cut into pages, pos the number of   *)
(* pages already handed out.                                               *)
(***************************************************************************)
IterHasNextPage(it) == it.pos < Len(it.pages)
IterGetNextPage(it) == [it |-> [it EXCEPT !.pos = it.pos + 1], page |-> it.pages[it.pos + 1]]
IterReset(it) == [it EXCEPT !.pos = 0]

(***************************************************************************)
(* history: the reorderer over (task, iterator).                           *)
(* currentIndex is 0-based as in the code; next.nil tells a nil slice      *)
(* from an empty one.                                                      *)
(***************************************************************************)
NilSlice == [nil |-> TRUE, ev |-> <<>>]
Slice(s) == [nil |-> FALSE, ev |-> s]

newHistory(task) ==
    [loadedEvents |-> task.events, currentIndex |-> 0, next |-> NilSlice,
     it |-> task.it, previousStartedEventId |-> task.previousStartedEventId]

IsReplayEvent(eh, event) ==
    event.id <= eh.previousStartedEventId \/ isDecisionEvent(event.type)

\* scans the loaded events only, from currentIndex on
IsNextDecisionFailed(eh) ==
    LET idx == {i \in (eh.currentIndex + 1)..Len(eh.loadedEvents) :
                   eh.loadedEvents[i].type \in {DTCompleted, DTTimedOut, DTFailed}}
    IN  IF idx = {} THEN FALSE
        ELSE LET first == CHOOSE i \in idx : \A j \in idx : i <= j
             IN  eh.loadedEvents[first].type \in {DTTimedOut, DTFailed}

hasMoreEvents(eh) == IterHasNextPage(eh.it)

\* the OrderEvents loop of nextDecisionEvents; nextEvents stays nil until
\* the first append
RECURSIVE OrderEvents(_, _, _)
OrderEvents(eh, nextEvents, markers) ==
    IF eh.currentIndex = Len(eh.loadedEvents)
    THEN IF ~hasMoreEvents(eh)
         THEN [eh |-> eh, nextEvents |-> nextEvents, markers |-> markers]
         ELSE LET got == IterGetNextPage(eh.it)
              IN  OrderEvents([eh EXCEPT !.it = got.it,
                                         !.loadedEvents = eh.loadedEvents \o got.page],
                              nextEvents, markers)
    ELSE LET event == eh.loadedEvents[eh.currentIndex + 1]
             step == [eh EXCEPT !.currentIndex = eh.currentIndex + 1]
         IN  IF event.type = DTStarted
             THEN IF ~IsNextDecisionFailed(eh)
                  THEN [eh |-> step,
                        nextEvents |-> Slice(Append(nextEvents.ev, event)),
                        markers |-> markers]
                  ELSE OrderEvents(step, nextEvents, markers)
             ELSE IF event.type \in {DTCompleted, DTScheduled, DTTimedOut, DTFailed}
             THEN OrderEvents(step, nextEvents, markers)
             ELSE OrderEvents(step, Slice(Append(nextEvents.ev, event)),
                              IF isPreloadMarkerEvent(event)
                              THEN Append(markers, event) ELSE markers)

nextDecisionEvents(eh) ==
    IF eh.currentIndex = Len(eh.loadedEvents) /\ ~hasMoreEvents(eh)
    THEN [eh |-> eh, nextEvents |-> Slice(<<>>), markers |-> <<>>]
    ELSE LET r == OrderEvents(eh, NilSlice, <<>>)
         IN  [eh |-> [r.eh EXCEPT
                        !.loadedEvents = SubSeq(r.eh.loadedEvents, r.eh.currentIndex + 1,
                                                Len(r.eh.loadedEvents)),
                        !.currentIndex = 0],
              nextEvents |-> r.nextEvents, markers |-> r.markers]

NextDecisionEvents(eh) ==
    LET first == IF eh.next.nil
                 THEN LET r == nextDecisionEvents(eh)
                      IN  [r.eh EXCEPT !.next = r.nextEvents]
                 ELSE eh
        result == first.next.ev
    IN  IF Len(result) > 0
        THEN LET r == nextDecisionEvents(first)
             IN  [eh |-> [r.eh EXCEPT !.next = r.nextEvents],
                  result |-> result, markers |-> r.markers]
        ELSE [eh |-> first, result |-> result, markers |-> <<>>]

(***************************************************************************)
(* The event handler (workflowExecutionEventHandlerImpl) is the opaque     *)
(* dispatcher of the workflow code.  Its contract: ProcessEvent consumes   *)
(* an event; the decisions helper yields the decisions accumulated since   *)
(* the last drain.  The workflow modelled is deterministic: it runs on a   *)
(* DecisionTaskStarted event when an event that unblocks it has arrived    *)
(* since it last ran, and the decision it then makes is a function of the  *)
(* events it has consumed (field at).                                      *)
(*   processed        ids of the events passed to ProcessEvent, in order   *)
(*   unblocked        an unblocking event arrived since the workflow ran   *)
(*   decisions        decisionsHelper: decisions not yet drained           *)
(*   pendingLaTasks / unstartedLaTasks   numbers of local activity tasks   *)
(*   failedPass       a pass on this handler state returned an error       *)
(***************************************************************************)
NilHandler ==
    [nil |-> TRUE, processed |-> <<>>, unblocked |-> FALSE, decisions |-> <<>>,
     pendingLaTasks |-> 0, unstartedLaTasks |-> 0, failedPass |-> FALSE]

newWorkflowExecutionEventHandler == [NilHandler EXCEPT !.nil = FALSE]

\* createNewDecision: a decision of the given type; name is the attribute
\* the replay matcher compares (marker name, activity or timer id), reason
\* the reason of a FailWorkflowExecution decision
createNewDecision(decisionType) ==
    [type |-> decisionType, name |-> "", reason |-> "", at |-> <<>>]

\* the worker's workflow code: "same" as the code that produced the history,
\* or "changed" (its decisions no longer match the recorded events)
WorkflowDecisionType(code) ==
    IF code = "same" THEN "ScheduleActivityTask" ELSE "StartTimer"

ProcessEvent(h, event, code) ==
    LET seen == Append(h.processed, event.id)
    IN  IF event.type = DTStarted
        THEN [h EXCEPT !.processed = seen,
                       !.unblocked = FALSE,
                       !.decisions = IF h.unblocked
                                     THEN Append(@, [createNewDecision(
                                                         WorkflowDecisionType(code))
                                                     EXCEPT !.at = seen])
                                     ELSE @]
        ELSE [h EXCEPT !.processed = seen,
                       !.unblocked = @ \/ event.type \in {WES, ActCompleted}]

(***************************************************************************)
(* Replay matcher.  The attribute the match table compares for a decision  *)
(* and its event (activity id and type, timer id, marker name, domain and   *)
(* workflow id, signal name, workflow type) is the field name.              *)
(***************************************************************************)
versionMarkerName == "Version"
mutableSideEffectMarkerName == "MutableSideEffect"
localActivityMarkerName == "LocalActivity"

skipDeterministicCheckForDecision(d) ==
    d.type = "RecordMarker"
        /\ d.name \in {versionMarkerName, mutableSideEffectMarkerName}

skipDeterministicCheckForEvent(e) ==
    e.type = MarkerRecorded /\ e.name \in {versionMarkerName, mutableSideEffectMarkerName}

\* the match table (strictMode false): the event types a decision type
\* matches, and whether the attribute is compared too
MatchEventTypes(decisionType) ==
    CASE decisionType = "ScheduleActivityTask" -> {ActScheduled}
      [] decisionType = "RequestCancelActivityTask" ->
             {"ActivityTaskCancelRequested", "RequestCancelActivityTaskFailed"}
      [] decisionType = "StartTimer" -> {"TimerStarted"}
      [] decisionType = "CancelTimer" -> {"TimerCanceled", "CancelTimerFailed"}
      [] decisionType = "CompleteWorkflowExecution" -> {"WorkflowExecutionCompleted"}
      [] decisionType = "FailWorkflowExecution" -> {"WorkflowExecutionFailed"}
      [] decisionType = "RecordMarker" -> {MarkerRecorded}
      [] decisionType = "RequestCancelExternalWorkflowExecution" ->
             {"RequestCancelExternalWorkflowExecutionInitiated"}
      [] decisionType = "SignalExternalWorkflowExecution" ->
             {"SignalExternalWorkflowExecutionInitiated"}
      [] decisionType = "CancelWorkflowExecution" -> {"WorkflowExecutionCanceled"}
      [] decisionType = "ContinueAsNewWorkflowExecution" ->
             {"WorkflowExecutionContinuedAsNew"}
      [] decisionType = "StartChildWorkflowExecution" ->
             {"StartChildWorkflowExecutionInitiated"}
      [] OTHER -> {}

MatchComparesAttribute(decisionType) ==
    decisionType \notin {"CompleteWorkflowExecution", "FailWorkflowExecution",
                         "CancelWorkflowExecution", "ContinueAsNewWorkflowExecution"}

isDecisionMatchEvent(d, e) ==
    /\ e.type \in MatchEventTypes(d.type)
    /\ MatchComparesAttribute(d.type) => d.name = e.name

\* faulty variant: the comparison stops where either sequence ends
RECURSIVE matchReplayCommonPrefix(_, _)
matchReplayCommonPrefix(replayDecisions, historyEvents) ==
    IF historyEvents = <<>> \/ replayDecisions = <<>> THEN "nil"
    ELSE IF skipDeterministicCheckForEvent(Head(historyEvents))
    THEN matchReplayCommonPrefix(replayDecisions, Tail(historyEvents))
    ELSE IF skipDeterministicCheckForDecision(Head(replayDecisions))
    THEN matchReplayCommonPrefix(Tail(replayDecisions), historyEvents)
    ELSE IF ~isDecisionMatchEvent(Head(replayDecisions), Head(historyEvents))
    THEN "mismatch"
    ELSE matchReplayCommonPrefix(Tail(replayDecisions), Tail(historyEvents))

\* the error matchReplayWithHistory returns ("nil": none)
RECURSIVE matchReplayWithHistory(_, _)
matchReplayWithHistory(replayDecisions, historyEvents) ==
    IF historyEvents = <<>> /\ replayDecisions = <<>> THEN "nil"
    ELSE IF historyEvents # <<>> /\ skipDeterministicCheckForEvent(Head(historyEvents))
    THEN matchReplayWithHistory(replayDecisions, Tail(historyEvents))
    ELSE IF replayDecisions # <<>> /\ skipDeterministicCheckForDecision(Head(replayDecisions))
    THEN matchReplayWithHistory(Tail(replayDecisions), historyEvents)
    ELSE IF replayDecisions = <<>> THEN "missing replay decision"
    ELSE IF historyEvents = <<>> THEN "extra replay decision"
    ELSE IF ~isDecisionMatchEvent(Head(replayDecisions), Head(historyEvents))
    THEN "mismatch"
    ELSE matchReplayWithHistory(Tail(replayDecisions), Tail(historyEvents))

(***************************************************************************)
(* Tasks (PollForDecisionTaskResponse with its history iterator).          *)
(***************************************************************************)
NilTask ==
    [nil |-> TRUE, run |-> "", query |-> FALSE, events |-> <<>>, startedEventId |-> 0,
     previousStartedEventId |-> 0, it |-> [pages |-> <<>>, pos |-> 0]]

\* historyIterator.Reset(), GetNextPage(), task.History = firstPageHistory;
\* iterOk tells whether GetNextPage succeeds
resetHistory(task, iterOk) ==
    LET it0 == IterReset(task.it)
    IN  IF ~iterOk
        THEN [task |-> [task EXCEPT !.it = it0], err |-> "IterError"]
        ELSE LET got == IterGetNextPage(it0)
             IN  [task |-> [task EXCEPT !.it = got.it, !.events = got.page], err |-> "nil"]

(***************************************************************************)
(* workflowExecutionContextImpl (the mutex is the variable mutex).         *)
(*   wthDisableSticky   w.wth.disableStickyExecution                       *)
(*   laTunnel           whether w.laTunnel has been assigned               *)
(*   laSent             local activity tasks sent to the tunnel and not    *)
(*                      yet answered                                       *)
(***************************************************************************)
NilContext ==
    [alloc |-> FALSE, runID |-> "", wthDisableSticky |-> FALSE,
     eventHandler |-> NilHandler, isWorkflowCompleted |-> FALSE, err |-> "nil",
     previousStartedEventID |-> 0, newDecisions |-> <<>>,
     currentDecisionTask |-> NilTask, laTunnel |-> FALSE, laSent |-> 0]

isDestroyed(w) == w.eventHandler.nil

\* faulty variant: the current task is kept when it has been answered
clearCurrentTaskKeepsTask(w) == [w EXCEPT !.newDecisions = <<>>]

clearCurrentTask(w) ==
    [w EXCEPT !.newDecisions = <<>>, !.currentDecisionTask = NilTask]

clearState(w) ==
    [clearCurrentTask(w) EXCEPT !.isWorkflowCompleted = FALSE, !.err = "nil",
                                !.previousStartedEventID = 0,
                                !.eventHandler = NilHandler]

createEventHandler(w) ==
    [clearState(w) EXCEPT !.eventHandler = newWorkflowExecutionEventHandler]

\* the completion callback handed to the event handler
completeWorkflowCallback(w, err) ==
    [w EXCEPT !.isWorkflowCompleted = TRUE, !.err = err]

shouldResetStickyOnEviction(w) == w.err = "nil" /\ ~w.isWorkflowCompleted

hasPendingLocalActivityWork(w) ==
    ~w.isWorkflowCompleted /\ ~w.eventHandler.nil /\ w.eventHandler.pendingLaTasks > 0

\* faulty variant: a destroyed context is used as it is
resetStateIfDestroyedNever(w, task, iterOk) == [w |-> w, task |-> task, err |-> "nil"]

resetStateIfDestroyed(w, task, iterOk) ==
    IF isDestroyed(w)
    THEN LET w1 == createEventHandler(w)
         IN  IF ~isFullHistory(task.events)
             THEN LET r == resetHistory(task, iterOk)
                  IN  [w |-> w1, task |-> r.task, err |-> r.err]
             ELSE [w |-> w1, task |-> task, err |-> "nil"]
    ELSE [w |-> w, task |-> task, err |-> "nil"]

\* faulty variant: a stale task is processed on the cached state
ResetIfStaleNever(w, task, iterOk) == [w |-> w, task |-> task, err |-> "nil"]

ResetIfStale(w, task, iterOk) ==
    IF Len(task.events) > 0 /\ task.events[1].id # w.previousStartedEventID + 1
    THEN resetStateIfDestroyed(clearState(w), task, iterOk)
    ELSE [w |-> w, task |-> task, err |-> "nil"]

\* faulty variant: a query task advances previousStartedEventID too
SetCurrentTaskAlways(w, task) ==
    [w EXCEPT !.currentDecisionTask = task,
              !.previousStartedEventID = task.startedEventId]

\* faulty variant: previousStartedEventID is never advanced
SetCurrentTaskNever(w, task) == [w EXCEPT !.currentDecisionTask = task]

SetCurrentTask(w, task) ==
    [w EXCEPT !.currentDecisionTask = task,
              !.previousStartedEventID = IF ~task.query THEN task.startedEventId ELSE @]

skipReplayCheck(w) ==
    w.currentDecisionTask.query \/ ~isFullHistory(w.currentDecisionTask.events)

(***************************************************************************)
(* Responses.                                                              *)
(***************************************************************************)
NilResponse ==
    [kind |-> "nil", decisions |-> <<>>, returnNewDecisionTask |-> FALSE,
     forceCreateNewDecisionTask |-> FALSE, completedType |-> "",
     errorMessage |-> "", cause |-> ""]

\* the reason getErrorDetails gives for an error: a CustomError carries its
\* own reason
nondeterministicReason == "nondeterministic workflow"
getErrorDetails(err) ==
    IF err = "NonDeterministicCustomError" THEN nondeterministicReason
    ELSE IF err = "CustomError" THEN "workflow failure"
    ELSE "cadenceInternal:Generic"

CloseDecision(ty, err) ==
    [createNewDecision(ty) EXCEPT
        !.reason = IF ty = "FailWorkflowExecution" THEN getErrorDetails(err) ELSE ""]

\* errorToFailDecisionTask
errorToFailDecisionTask ==
    [NilResponse EXCEPT !.kind = "RespondDecisionTaskFailed",
                        !.cause = "WorkflowWorkerUnhandledFailure"]

\* faulty variant: a cancellation or a continue-as-new closes the workflow
\* as a failure
completeWorkflowFailsFirst(task, w, decisions, forceNewDecision) ==
    IF task.query
    THEN [NilResponse EXCEPT !.kind = "RespondQueryTaskCompleted",
                             !.completedType = IF w.err = "PanicError"
                                               THEN "Failed" ELSE "Completed",
                             !.errorMessage = IF w.err = "PanicError"
                                              THEN "Workflow panic: " ELSE ""]
    ELSE IF w.err = "PanicError"
    THEN errorToFailDecisionTask
    ELSE LET closeType ==
                 IF w.err # "nil" THEN "FailWorkflowExecution"
                 ELSE IF w.isWorkflowCompleted THEN "CompleteWorkflowExecution"
                 ELSE "none"
         IN  [NilResponse EXCEPT
                !.kind = "RespondDecisionTaskCompleted",
                !.decisions = IF closeType # "none"
                              THEN Append(decisions, CloseDecision(closeType, w.err))
                              ELSE decisions,
                !.returnNewDecisionTask = TRUE,
                !.forceCreateNewDecisionTask = IF closeType # "none" THEN FALSE
                                               ELSE forceNewDecision]

\* faulty variant: a closing decision does not clear forceNewDecision
completeWorkflowKeepsForce(task, w, decisions, forceNewDecision) ==
    IF task.query
    THEN [NilResponse EXCEPT !.kind = "RespondQueryTaskCompleted",
                             !.completedType = IF w.err = "PanicError"
                                               THEN "Failed" ELSE "Completed",
                             !.errorMessage = IF w.err = "PanicError"
                                              THEN "Workflow panic: " ELSE ""]
    ELSE IF w.err = "PanicError"
    THEN errorToFailDecisionTask
    ELSE LET closeType ==
                 IF w.err = "CanceledError" THEN "CancelWorkflowExecution"
                 ELSE IF w.err = "ContinueAsNewError" THEN "ContinueAsNewWorkflowExecution"
                 ELSE IF w.err # "nil" THEN "FailWorkflowExecution"
                 ELSE IF w.isWorkflowCompleted THEN "CompleteWorkflowExecution"
                 ELSE "none"
         IN  [NilResponse EXCEPT
                !.kind = "RespondDecisionTaskCompleted",
                !.decisions = IF closeType # "none"
                              THEN Append(decisions, CloseDecision(closeType, w.err))
                              ELSE decisions,
                !.returnNewDecisionTask = TRUE,
                !.forceCreateNewDecisionTask = forceNewDecision]

\* workflowTaskHandlerImpl.completeWorkflow (the query handler of the
\* workflow is taken to answer the query)
completeWorkflow(task, w, decisions, forceNewDecision) ==
    IF task.query
    THEN [NilResponse EXCEPT !.kind = "RespondQueryTaskCompleted",
                             !.completedType = IF w.err = "PanicError"
                                               THEN "Failed" ELSE "Completed",
                             !.errorMessage = IF w.err = "PanicError"
                                              THEN "Workflow panic: " ELSE ""]
    ELSE IF w.err = "PanicError"
    THEN errorToFailDecisionTask
    ELSE LET closeType ==
                 IF w.err = "CanceledError" THEN "CancelWorkflowExecution"
                 ELSE IF w.err = "ContinueAsNewError" THEN "ContinueAsNewWorkflowExecution"
                 ELSE IF w.err # "nil" THEN "FailWorkflowExecution"
                 ELSE IF w.isWorkflowCompleted THEN "CompleteWorkflowExecution"
                 ELSE "none"
         IN  [NilResponse EXCEPT
                !.kind = "RespondDecisionTaskCompleted",
                !.decisions = IF closeType # "none"
                              THEN Append(decisions, CloseDecision(closeType, w.err))
                              ELSE decisions,
                !.returnNewDecisionTask = TRUE,
                !.forceCreateNewDecisionTask = IF closeType # "none" THEN FALSE
                                               ELSE forceNewDecision]

\* faulty variant: the task is completed although local activities are pending
CompleteDecisionTaskNoWait(w, waitLocalActivities) ==
    IF w.currentDecisionTask.nil THEN [w |-> w, resp |-> NilResponse]
    ELSE LET w2 == [w EXCEPT !.newDecisions = @ \o w.eventHandler.decisions,
                             !.eventHandler.decisions = <<>>]
         IN  [w |-> clearCurrentTask(w2),
              resp |-> completeWorkflow(w2.currentDecisionTask, w2, w2.newDecisions,
                                        ~waitLocalActivities)]

CompleteDecisionTask(w, waitLocalActivities) ==
    IF w.currentDecisionTask.nil THEN [w |-> w, resp |-> NilResponse]
    ELSE LET pending == hasPendingLocalActivityWork(w) /\ w.laTunnel
             \* start the unstarted local activity tasks
             w1 == IF pending /\ w.eventHandler.unstartedLaTasks > 0
                   THEN [w EXCEPT !.laSent = @ + w.eventHandler.unstartedLaTasks,
                                  !.eventHandler.unstartedLaTasks = 0]
                   ELSE w
         IN  IF pending /\ waitLocalActivities
             THEN [w |-> w1, resp |-> NilResponse]
             ELSE LET w2 == [w1 EXCEPT !.newDecisions = @ \o w1.eventHandler.decisions,
                                       !.eventHandler.decisions = <<>>]
                  IN  [w |-> clearCurrentTask(w2),
                       resp |-> completeWorkflow(w2.currentDecisionTask, w2, w2.newDecisions,
                                                 ~waitLocalActivities)]

(***************************************************************************)
(* workflowExecutionContextImpl.ProcessWorkflowTask.                       *)
(* env is what the pass meets outside this code:                           *)
(*   iterOk   whether the iterator's GetNextPage succeeds in resetHistory  *)
(*   errAt    the ProcessEvent call of this pass that returns an error     *)
(*            (0: none)                                                    *)
(*   outcome  what the workflow does when it runs on the task's new        *)
(*            events: "continue", "complete", "fail", "panic", "la"        *)
(*            (it schedules a local activity)                              *)
(*   code     the worker's workflow code, "same" or "changed"              *)
(*   policy   nonDeterministicWorkflowPolicy                               *)
(***************************************************************************)
\* faulty variant: every marker is passed after the events of the batch
BatchCallsMarkersLast(reorderedEvents, markers) ==
    LET NotMarker(e) == ~isPreloadMarkerEvent(e)
    IN  SelectSeq(reorderedEvents, NotMarker) \o markers

\* the ProcessEvent calls of one batch, in the order the loop makes them
BatchCalls(reorderedEvents, markers) ==
    LET NotLocal(m) == m.name # localActivityMarkerName
        NotMarker(e) == ~isPreloadMarkerEvent(e)
        Local(m) == m.name = localActivityMarkerName
    IN  SelectSeq(markers, NotLocal) \o SelectSeq(reorderedEvents, NotMarker)
          \o SelectSeq(markers, Local)

\* faulty variant: the last event of a batch is flagged as last although it
\* is a replay event
ProcessEventFlagsLastInReplay(eh, reorderedEvents, event) ==
    [event |-> event,
     isInReplay |-> isPreloadMarkerEvent(event) \/ IsReplayEvent(eh, event),
     isLast |-> ~isPreloadMarkerEvent(event)
                    /\ event = reorderedEvents[Len(reorderedEvents)]]

\* the flags of the ProcessEvent call for event: a marker is passed with
\* (true, false), an event of the batch with isInReplay and isLast
ProcessEventFlags(eh, reorderedEvents, event) ==
    IF isPreloadMarkerEvent(event)
    THEN [event |-> event, isInReplay |-> TRUE, isLast |-> FALSE]
    ELSE [event |-> event,
          isInReplay |-> IsReplayEvent(eh, event),
          isLast |-> ~IsReplayEvent(eh, event)
                         /\ event = reorderedEvents[Len(reorderedEvents)]]

\* the ProcessEvent calls of one batch with their flags
BatchCallFlags(eh, reorderedEvents, markers) ==
    LET calls == BatchCalls(reorderedEvents, markers)
    IN  [i \in 1..Len(calls) |-> ProcessEventFlags(eh, reorderedEvents, calls[i])]

\* calls made one after the other; n counts the calls of the pass
RECURSIVE ApplyCalls(_, _, _, _)
ApplyCalls(h, calls, n, env) ==
    IF calls = <<>> THEN [h |-> h, n |-> n, err |-> "nil"]
    ELSE IF n + 1 = env.errAt THEN [h |-> h, n |-> n + 1, err |-> "EventError"]
    ELSE ApplyCalls(ProcessEvent(h, Head(calls), env.code), Tail(calls), n + 1, env)

\* the ProcessEvents loop: st = [h, eh, replayDecisions, respondEvents, n, err].
\* BatchDone: the batch nd after its ProcessEvent calls (result r): an error
\* returns at once, a replay batch drains the decisions of the handler
BatchDone(st, nd, r, skip) ==
    LET IsDec(e) == isDecisionEvent(e.type)
        isReplay == IsReplayEvent(nd.eh, nd.result[Len(nd.result)])
    IN  [h |-> IF r.err = "nil" /\ isReplay THEN [r.h EXCEPT !.decisions = <<>>] ELSE r.h,
         eh |-> nd.eh,
         replayDecisions |-> IF isReplay /\ ~skip
                             THEN st.replayDecisions \o r.h.decisions
                             ELSE st.replayDecisions,
         respondEvents |-> IF skip THEN st.respondEvents
                           ELSE st.respondEvents \o SelectSeq(nd.result, IsDec),
         n |-> r.n, err |-> r.err]

RECURSIVE ProcessEventsLoop(_, _, _)
LoopAfterBatch(st, skip, env) ==
    IF st.err # "nil" THEN st ELSE ProcessEventsLoop(st, skip, env)

LoopOnBatch(st, nd, skip, env) ==
    IF Len(nd.result) = 0 THEN [st EXCEPT !.eh = nd.eh]
    ELSE LoopAfterBatch(
             BatchDone(st, nd, ApplyCalls(st.h, BatchCalls(nd.result, nd.markers),
                                          st.n, env), skip),
             skip, env)

ProcessEventsLoop(st, skip, env) == LoopOnBatch(st, NextDecisionEvents(st.eh), skip, env)

\* what the workflow code does to the context when it has run on new events
WorkflowOutcome(w, env) ==
    IF w.eventHandler.decisions = <<>> \/ env.outcome = "continue" THEN w
    ELSE IF env.outcome = "complete" THEN completeWorkflowCallback(w, "nil")
    ELSE IF env.outcome = "fail" THEN completeWorkflowCallback(w, "CustomError")
    ELSE IF env.outcome = "panic" THEN completeWorkflowCallback(w, "PanicError")
    ELSE [w EXCEPT !.eventHandler.pendingLaTasks = 1,
                   !.eventHandler.unstartedLaTasks = 1]

\* the result of a pass; mismatch records whether the replay matcher
\* reported an error in it
PassResult(w, task, resp, err) ==
    [w |-> w, task |-> task, resp |-> resp, err |-> err, mismatch |-> FALSE]

\* the end of the pass: CompleteDecisionTask(true)
PassComplete(done, task) == PassResult(done.w, task, done.resp, "nil")

\* faulty variant: the mismatch is not reported to the event handler
OnMismatchIgnored(w, task, policy) ==
    PassComplete(CompleteDecisionTask(w, TRUE), task)

\* faulty variant: every policy fails the workflow
OnMismatchAlwaysFails(w, task, policy) ==
    PassComplete(
        CompleteDecisionTask(
            completeWorkflowCallback(w, "NonDeterministicCustomError"), TRUE),
        task)

\* what the pass does with a mismatch, by policy
OnMismatch(w, task, policy) ==
    IF policy = "BlockWorkflow"
    THEN PassResult(w, task, NilResponse, "NonDeterministicError")
    ELSE PassComplete(
             CompleteDecisionTask(
                 completeWorkflowCallback(w, "NonDeterministicCustomError"), TRUE),
             task)

\* the non-determinism check and its policy
PassMatched(w, task, mismatch, env) ==
    IF mismatch
    THEN [OnMismatch(w, task, env.policy) EXCEPT !.mismatch = TRUE]
    ELSE PassComplete(CompleteDecisionTask(w, TRUE), task)

\* after the ProcessEvents loop (result loop) on context w
PassAfterLoop(w, task, loop, skip, env) ==
    IF loop.err # "nil"
    THEN PassResult([w EXCEPT !.eventHandler = loop.h], task, NilResponse, loop.err)
    ELSE PassMatched(WorkflowOutcome([w EXCEPT !.eventHandler = loop.h], env), task,
                     ~skip /\ matchReplayWithHistory(loop.replayDecisions,
                                                     loop.respondEvents) # "nil",
                     env)

\* SetCurrentTask done (context w): the ProcessEvents loop
PassLoop(w, task, env) ==
    PassAfterLoop(w, task,
                  ProcessEventsLoop([h |-> w.eventHandler, eh |-> newHistory(task),
                                     replayDecisions |-> <<>>, respondEvents |-> <<>>,
                                     n |-> 0, err |-> "nil"], skipReplayCheck(w), env),
                  skipReplayCheck(w), env)

\* ResetIfStale done (result stale)
PassAfterStale(stale, env) ==
    IF stale.err # "nil"
    THEN PassResult(stale.w, stale.task, NilResponse, stale.err)
    ELSE PassLoop(SetCurrentTask(stale.w, stale.task), stale.task, env)

ContextProcessWorkflowTask(w, task, env) ==
    PassAfterStale(ResetIfStale(w, task, env.iterOk), env)

(***************************************************************************)
(* The tasks the service hands out.  ServerHistory is the history of a     *)
(* run; a decision task ends with a DecisionTaskStarted event and carries  *)
(* the whole history up to it, or (sticky) only the events after the       *)
(* previous DecisionTaskStarted; a query task may also carry no event.     *)
(***************************************************************************)
ServerHistory ==
    EventsOf(<<WES, DTScheduled, DTStarted, DTCompleted, ActScheduled, ActCompleted,
               DTScheduled, DTStarted>>)

StartedIds(h) == {i \in 1..Len(h) : h[i].type = DTStarted}

PrevStarted(h, s) ==
    LET before == {i \in StartedIds(h) : i < s}
    IN  IF before = {} THEN 0 ELSE CHOOSE i \in before : \A j \in before : j <= i

\* the task of run r whose started event is s, with the events from..s
MkTask(r, h, from, s, q) ==
    [nil |-> FALSE, run |-> r, query |-> q, events |-> SubSeq(h, from, s),
     startedEventId |-> s, previousStartedEventId |-> PrevStarted(h, s),
     it |-> [pages |-> <<SubSeq(h, 1, s)>>, pos |-> 1]]

TasksOf(r) ==
    LET h == ServerHistory
    IN  {MkTask(r, h, 1, s, q) : s \in StartedIds(h), q \in BOOLEAN}
          \cup {MkTask(r, h, PrevStarted(h, s) + 1, s, q) :
                   s \in {x \in StartedIds(h) : PrevStarted(h, x) > 0}, q \in BOOLEAN}
          \cup {MkTask(r, h, s + 1, s, q) : s \in {Len(h)}, q \in BOOLEAN}

\* run r1 gets every task; run r2 (there to fill the cache) only its first
\* decision task
Tasks == TasksOf("r1") \cup {MkTask("r2", ServerHistory, 1, 3, FALSE)}

Outcomes == {"continue", "complete", "fail", "la"}
Envs(cfg) ==
    [iterOk : BOOLEAN, errAt : {0, 1}, outcome : Outcomes,
     code : {cfg.code}, policy : {cfg.policy}]

(***************************************************************************)
(* State.                                                                  *)
(*   config         the worker: disableStickyExecution,                    *)
(*                  nonDeterministicWorkflowPolicy, and its workflow code  *)
(*   workflowCache  the sticky cache: created (by getWorkflowCache), and   *)
(*                  its entries, most recently used first                  *)
(*   ctx, mutex     the contexts and their mutexes: "free", the goroutine  *)
(*                  holding it, "evict" (the eviction callback), or        *)
(*                  "leaked" (held by a call that has returned)            *)
(*   thr            the goroutines calling ProcessWorkflowTask             *)
(*   evict          the eviction callback of each context                  *)
(*   resetQueue     ResetStickyTaskList requests on laTunnel.resultCh,     *)
(*                  counted per context                                    *)
(*   crashed        a panic ended the process                              *)
(*   tasksLeft      tasks still to poll                                    *)
(***************************************************************************)
VARIABLES config, workflowCache, ctx, mutex, thr, evict, resetQueue, crashed, tasksLeft

\* state of the parts checked on their own (they stay as they are while the
\* task handler runs): the history reorderer with the handler it feeds, the
\* replay matcher, the heartbeat invoker of an activity, the activity task
\* handler's Execute, and the creation of the sticky cache at worker startup
VARIABLES reorder, match, invoker, activity, sticky

aux == <<reorder, match, invoker, activity, sticky>>

vars == <<config, workflowCache, ctx, mutex, thr, evict, resetQueue, crashed, tasksLeft,
          reorder, match, invoker, activity, sticky>>

AuxIdle ==
    /\ reorder = <<>> /\ match = <<>> /\ invoker = <<>>
    /\ activity = <<>> /\ sticky = <<>>

\* what a goroutine saw when it took the lock: the context came from the
\* cache, the task was stale for it, the task's history was partial, the
\* context was destroyed, its previousStartedEventID; and (failed) whether
\* its pass then ran on a handler that an earlier pass had left with an error
\* and (mismatch) whether the replay matcher reported an error in its pass
NoSeen == [cached |-> FALSE, stale |-> FALSE, partial |-> FALSE, destroyed |-> FALSE,
           failed |-> FALSE, prev |-> 0, mismatch |-> FALSE]

IdleThread ==
    [pc |-> "idle", task |-> NilTask, wc |-> 0, resp |-> NilResponse, err |-> "nil",
     seen |-> NoSeen]

\* the policy matters only to a worker whose code has changed
Configs ==
    {cfg \in [disableStickyExecution : BOOLEAN,
              policy : {"FailWorkflow", "BlockWorkflow"},
              code : {"same", "changed"}] :
        cfg.code = "same" => cfg.policy = "BlockWorkflow"}

Init ==
    /\ config \in Configs
    /\ workflowCache = [created |-> FALSE, entries |-> <<>>]
    /\ ctx = [c \in CtxIds |-> NilContext]
    /\ mutex = [c \in CtxIds |-> "free"]
    /\ thr = [t \in Threads |-> IdleThread]
    /\ evict = [c \in CtxIds |-> "none"]
    /\ resetQueue = [c \in CtxIds |-> 0]
    /\ crashed = "no"
    /\ tasksLeft = MaxTasks
    /\ AuxIdle

(***************************************************************************)
(* The sticky cache (internal/common/cache, an LRU with a removal          *)
(* callback run in a goroutine of its own).                                *)
(***************************************************************************)
RemoveAt(s, i) == SubSeq(s, 1, i - 1) \o SubSeq(s, i + 1, Len(s))

\* position of the entry of run r, 0 if none
CacheIndex(entries, r) ==
    LET hits == {i \in 1..Len(entries) : ctx[entries[i]].runID = r}
    IN  IF hits = {} THEN 0 ELSE CHOOSE i \in hits : TRUE

getWorkflowCache(cache) == [cache EXCEPT !.created = TRUE]

\* Get: the entry becomes the most recently used
CacheGet(cache, r) ==
    LET i == CacheIndex(cache.entries, r)
    IN  IF i = 0 THEN [cache |-> cache, found |-> 0]
        ELSE [cache |-> [cache EXCEPT !.entries = <<cache.entries[i]>> \o RemoveAt(@, i)],
              found |-> cache.entries[i]]

\* PutIfNotExist of context c for run r: the existing entry, or c inserted
\* and the least recently used entry evicted when the cache is over capacity
CachePutIfNotExist(cache, r, c) ==
    LET i == CacheIndex(cache.entries, r)
        added == <<c>> \o cache.entries
    IN  IF i # 0 THEN [cache |-> cache, existing |-> cache.entries[i], evicted |-> 0]
        ELSE IF Len(added) > MaxCacheSize
        THEN [cache |-> [cache EXCEPT !.entries = SubSeq(added, 1, MaxCacheSize)],
              existing |-> c, evicted |-> added[Len(added)]]
        ELSE [cache |-> [cache EXCEPT !.entries = added], existing |-> c, evicted |-> 0]

\* Delete of run r: the removed context, 0 if none
CacheDelete(cache, r) ==
    LET i == CacheIndex(cache.entries, r)
    IN  IF i = 0 THEN [cache |-> cache, removed |-> 0]
        ELSE [cache |-> [cache EXCEPT !.entries = RemoveAt(@, i)],
              removed |-> cache.entries[i]]

\* the removal callback of context c starts in a goroutine of its own
SpawnEviction(ev, c) == IF c = 0 THEN ev ELSE [ev EXCEPT ![c] = "spawned"]

(***************************************************************************)
(* workflowTaskHandlerImpl.ProcessWorkflowTask, one goroutine t.           *)
(***************************************************************************)
\* the goroutine returns (with error e) and polls again
Return(t, e) == [thr EXCEPT ![t] = IdleThread]

FreeCtx == {c \in CtxIds : ~ctx[c].alloc}

\* the deferred function of getOrCreateWorkflowContext reads
\* workflowCache.Size(): a nil cache panics
DeferredSizeRead(cache) == IF cache.created THEN "no" ELSE "nil workflowCache"

ThreadBefore(u, t) == u = "t1" /\ t = "t2"

\* entry validation and the cache lookup
StartTask(t, task) ==
    /\ crashed = "no" /\ thr[t].pc = "idle" /\ tasksLeft > 0
    \* idle goroutines are interchangeable: the first one polls first
    /\ \A u \in Threads : thr[u].pc = "idle" => ~ThreadBefore(u, t)
    /\ tasksLeft' = tasksLeft - 1
    /\ IF ~task.query /\ Len(task.events) = 0
       THEN /\ thr' = Return(t, "nil or empty history")
            /\ UNCHANGED workflowCache
       ELSE IF ~task.query \/ ~isFullHistory(task.events)
       THEN LET got == CacheGet(getWorkflowCache(workflowCache), task.run)
            IN  /\ workflowCache' = got.cache
                /\ thr' = [thr EXCEPT ![t] = [IdleThread EXCEPT
                              !.pc = IF got.found # 0 THEN "lockCached" ELSE "create",
                              !.task = task, !.wc = got.found]]
       ELSE /\ thr' = [thr EXCEPT ![t] = [IdleThread EXCEPT !.pc = "create", !.task = task]]
            /\ UNCHANGED workflowCache
    /\ UNCHANGED <<config, ctx, mutex, evict, resetQueue, crashed>>
    /\ UNCHANGED aux

\* what the goroutine finds when it has the lock
Seen(w, task, cached) ==
    [cached |-> cached,
     stale |-> Len(task.events) > 0 /\ task.events[1].id # w.previousStartedEventID + 1,
     partial |-> ~isFullHistory(task.events),
     destroyed |-> w.eventHandler.nil,
     failed |-> FALSE,
     prev |-> w.previousStartedEventID,
     mismatch |-> FALSE]

\* the end of getOrCreateWorkflowContext once the lock is held: r is the
\* result of resetStateIfDestroyed.  An error returns with the lock held.
AfterLock(t, c, r, seen) ==
    /\ crashed' = DeferredSizeRead(workflowCache)
    /\ IF r.err # "nil"
       THEN /\ ctx' = [ctx EXCEPT ![c] = r.w]
            /\ mutex' = [mutex EXCEPT ![c] = "leaked"]
            /\ thr' = Return(t, r.err)
       ELSE /\ ctx' = [ctx EXCEPT ![c] = [r.w EXCEPT !.laTunnel = TRUE]]
            /\ mutex' = [mutex EXCEPT ![c] = t]
            /\ thr' = [thr EXCEPT ![t].pc = "process", ![t].task = r.task,
                                  ![t].seen = seen]

\* the context was found in the cache: Lock, then hit or ResetIfStale
LockCached(t, iterOk) ==
    LET c == thr[t].wc
        task == thr[t].task
        w == ctx[c]
        hit == [w |-> w, task |-> task, err |-> "nil"]
        r1 == IF task.query /\ ~isFullHistory(task.events) THEN hit
              ELSE IF task.events[1].id = w.previousStartedEventID + 1 THEN hit
              ELSE ResetIfStale(w, task, iterOk)
    IN  /\ crashed = "no" /\ thr[t].pc = "lockCached"
        /\ mutex[c] = "free"
        /\ AfterLock(t, c, resetStateIfDestroyed(r1.w, r1.task, iterOk),
                     Seen(w, task, TRUE))
        /\ UNCHANGED <<config, workflowCache, evict, resetQueue, tasksLeft>>
        /\ UNCHANGED aux

\* createWorkflowContext
newContext(r, cfg) ==
    createEventHandler([NilContext EXCEPT !.alloc = TRUE, !.runID = r,
                                          !.wthDisableSticky = cfg.disableStickyExecution])

\* no cached context: reset a partial history, create the context and put
\* it into the cache
CreateContext(t, iterOk) ==
    LET task == thr[t].task
        rh == IF ~isFullHistory(task.events) THEN resetHistory(task, iterOk)
              ELSE [task |-> task, err |-> "nil"]
    IN  /\ crashed = "no" /\ thr[t].pc = "create"
        /\ IF rh.err # "nil"
           THEN /\ thr' = Return(t, rh.err)
                /\ crashed' = DeferredSizeRead(workflowCache)
                /\ UNCHANGED <<ctx, workflowCache, evict>>
           ELSE /\ FreeCtx # {}
                /\ LET c == CHOOSE x \in FreeCtx : \A y \in FreeCtx : x <= y
                   IN  IF ~config.disableStickyExecution /\ ~task.query
                       THEN LET put == CachePutIfNotExist(getWorkflowCache(workflowCache),
                                                          task.run, c)
                            IN  /\ workflowCache' = put.cache
                                /\ evict' = SpawnEviction(evict, put.evicted)
                                /\ ctx' = IF put.existing = c
                                          THEN [ctx EXCEPT ![c] = newContext(task.run, config)]
                                          ELSE ctx
                                /\ thr' = [thr EXCEPT ![t].pc = "lockNew",
                                                      ![t].task = rh.task,
                                                      ![t].wc = put.existing]
                       ELSE /\ ctx' = [ctx EXCEPT ![c] = newContext(task.run, config)]
                            /\ thr' = [thr EXCEPT ![t].pc = "lockNew", ![t].task = rh.task,
                                                  ![t].wc = c]
                            /\ UNCHANGED <<workflowCache, evict>>
                /\ UNCHANGED crashed
        /\ UNCHANGED <<config, mutex, resetQueue, tasksLeft>>
        /\ UNCHANGED aux

\* Lock of the context just created (or of the one PutIfNotExist returned)
LockNew(t, iterOk) ==
    LET c == thr[t].wc
        w == ctx[c]
    IN  /\ crashed = "no" /\ thr[t].pc = "lockNew"
        /\ mutex[c] = "free"
        /\ AfterLock(t, c, resetStateIfDestroyed(w, thr[t].task, iterOk),
                     Seen(w, thr[t].task, FALSE))
        /\ UNCHANGED <<config, workflowCache, evict, resetQueue, tasksLeft>>
        /\ UNCHANGED aux

\* workflowContext.ProcessWorkflowTask under the lock
ProcessTask(t, env) ==
    LET c == thr[t].wc
        r == ContextProcessWorkflowTask(ctx[c], thr[t].task, env)
        stale == ResetIfStale(ctx[c], thr[t].task, env.iterOk)
    IN  /\ crashed = "no" /\ thr[t].pc = "process"
        /\ ctx' = [ctx EXCEPT ![c] =
                      IF r.err # "nil" /\ ~r.w.eventHandler.nil
                      THEN [r.w EXCEPT !.eventHandler.failedPass = TRUE] ELSE r.w]
        /\ thr' = [thr EXCEPT ![t].pc = "unlock", ![t].task = r.task,
                              ![t].resp = r.resp, ![t].err = r.err,
                              ![t].seen.failed = stale.err = "nil"
                                                   /\ stale.w.eventHandler.failedPass,
                              ![t].seen.mismatch = r.mismatch]
        /\ UNCHANGED <<config, workflowCache, mutex, evict, resetQueue, crashed, tasksLeft>>
        /\ UNCHANGED aux

\* faulty variant: only the stored error removes the context
UnlockRemovesOnStoredErr(w, err) == w.err # "nil"

\* the condition of Unlock(err)
UnlockRemoves(w, err) ==
    \/ err # "nil"
    \/ w.err # "nil"
    \/ w.isWorkflowCompleted
    \/ (w.wthDisableSticky /\ ~hasPendingLocalActivityWork(w))

\* removeWorkflowContext(runID)
removeWorkflowContext(cache, r) == CacheDelete(getWorkflowCache(cache), r)

\* the deferred Unlock(err), up to the removal from the cache
Unlock(t) ==
    LET c == thr[t].wc
        del == removeWorkflowContext(workflowCache, ctx[c].runID)
    IN  /\ crashed = "no" /\ thr[t].pc = "unlock"
        /\ IF UnlockRemoves(ctx[c], thr[t].err)
           THEN /\ workflowCache' = del.cache
                /\ evict' = SpawnEviction(evict, del.removed)
           ELSE UNCHANGED <<workflowCache, evict>>
        /\ thr' = [thr EXCEPT ![t].pc = "release"]
        /\ UNCHANGED <<config, ctx, mutex, resetQueue, crashed, tasksLeft>>
        /\ UNCHANGED aux

\* w.mutex.Unlock() and the return of ProcessWorkflowTask
MutexUnlock(t) ==
    /\ crashed = "no" /\ thr[t].pc = "release"
    /\ mutex' = [mutex EXCEPT ![thr[t].wc] = "free"]
    /\ thr' = [thr EXCEPT ![t] = IdleThread]
    /\ UNCHANGED <<config, workflowCache, ctx, evict, resetQueue, crashed, tasksLeft>>
    /\ UNCHANGED aux

(***************************************************************************)
(* onEviction, the removal callback of context c.                          *)
(***************************************************************************)
\* faulty variant: the callback does not wait for the mutex
EvictionLockNoWait(c) ==
    /\ crashed = "no" /\ evict[c] = "spawned"
    /\ mutex' = [mutex EXCEPT ![c] = "evict"]
    /\ evict' = [evict EXCEPT ![c] = "locked"]
    /\ UNCHANGED <<config, workflowCache, ctx, thr, resetQueue, crashed, tasksLeft>>
    /\ UNCHANGED aux

EvictionLock(c) ==
    /\ crashed = "no" /\ evict[c] = "spawned"
    /\ mutex[c] = "free"
    /\ mutex' = [mutex EXCEPT ![c] = "evict"]
    /\ evict' = [evict EXCEPT ![c] = "locked"]
    /\ UNCHANGED <<config, workflowCache, ctx, thr, resetQueue, crashed, tasksLeft>>
    /\ UNCHANGED aux

\* queueResetStickinessTask sends on w.laTunnel.resultCh: a nil laTunnel panics
EvictionQueueReset(c) ==
    /\ crashed = "no" /\ evict[c] = "locked"
    /\ evict' = [evict EXCEPT ![c] = "clear"]
    /\ IF shouldResetStickyOnEviction(ctx[c])
       THEN IF ctx[c].laTunnel
            THEN /\ resetQueue' = [resetQueue EXCEPT ![c] = @ + 1]
                 /\ UNCHANGED crashed
            ELSE /\ crashed' = "nil laTunnel"
                 /\ UNCHANGED resetQueue
       ELSE UNCHANGED <<resetQueue, crashed>>
    /\ UNCHANGED <<config, workflowCache, ctx, mutex, thr, tasksLeft>>
    /\ UNCHANGED aux

EvictionClearState(c) ==
    /\ crashed = "no" /\ evict[c] = "clear"
    /\ ctx' = [ctx EXCEPT ![c] = clearState(@)]
    /\ evict' = [evict EXCEPT ![c] = "unlock"]
    /\ UNCHANGED <<config, workflowCache, mutex, thr, resetQueue, crashed, tasksLeft>>
    /\ UNCHANGED aux

EvictionUnlock(c) ==
    /\ crashed = "no" /\ evict[c] = "unlock"
    /\ mutex' = [mutex EXCEPT ![c] = "free"]
    /\ evict' = [evict EXCEPT ![c] = "done"]
    /\ UNCHANGED <<config, workflowCache, ctx, thr, resetQueue, crashed, tasksLeft>>
    /\ UNCHANGED aux

(***************************************************************************)
(* The answer of the local activity runner for a task of context c.  The   *)
(* poller that receives it is not part of this file: it is taken to hold   *)
(* the context's mutex around ProcessLocalActivityResult and to Unlock     *)
(* with the error returned, as every operation on a context does.          *)
(***************************************************************************)
\* workflowExecutionContextImpl.ProcessLocalActivityResult: the handler
\* records the result (a marker decision) and the task is completed
ProcessLocalActivityResult(w) ==
    LET h == w.eventHandler
        w1 == IF h.pendingLaTasks > 0
              THEN [w EXCEPT !.eventHandler.pendingLaTasks = @ - 1,
                             !.eventHandler.decisions =
                                 Append(@, [createNewDecision("RecordMarker")
                                            EXCEPT !.name = localActivityMarkerName,
                                                   !.at = h.processed])]
              ELSE w
    IN  CompleteDecisionTask(w1, TRUE)

LocalActivityResult(c) ==
    /\ crashed = "no" /\ ctx[c].laSent > 0
    /\ mutex[c] = "free"
    /\ IF ctx[c].eventHandler.nil
       THEN /\ crashed' = "nil eventHandler"
            /\ ctx' = [ctx EXCEPT ![c].laSent = @ - 1]
            /\ UNCHANGED <<workflowCache, evict>>
       ELSE LET done == ProcessLocalActivityResult(ctx[c])
                del == removeWorkflowContext(workflowCache, ctx[c].runID)
            IN  /\ ctx' = [ctx EXCEPT ![c] = [done.w EXCEPT !.laSent = @ - 1]]
                /\ IF UnlockRemoves(done.w, "nil")
                   THEN /\ workflowCache' = del.cache
                        /\ evict' = SpawnEviction(evict, del.removed)
                   ELSE UNCHANGED <<workflowCache, evict>>
                /\ UNCHANGED crashed
    /\ UNCHANGED <<config, mutex, thr, resetQueue, tasksLeft>>
    /\ UNCHANGED aux

Next ==
    \/ \E t \in Threads, task \in Tasks : StartTask(t, task)
    \/ \E t \in Threads, iterOk \in BOOLEAN : LockCached(t, iterOk)
    \/ \E t \in Threads, iterOk \in BOOLEAN : CreateContext(t, iterOk)
    \/ \E t \in Threads, iterOk \in BOOLEAN : LockNew(t, iterOk)
    \/ \E t \in Threads : \E env \in Envs(config) : ProcessTask(t, env)
    \/ \E t \in Threads : Unlock(t)
    \/ \E t \in Threads : MutexUnlock(t)
    \/ \E c \in CtxIds : EvictionLock(c)
    \/ \E c \in CtxIds : EvictionQueueReset(c)
    \/ \E c \in CtxIds : EvictionClearState(c)
    \/ \E c \in CtxIds : EvictionUnlock(c)
    \/ \E c \in CtxIds : LocalActivityResult(c)

Spec == Init /\ [][Next]_vars


(***************************************************************************)
(* Replay of one run by two workers (specification SpecReplay).  The       *)
(* history of the run is a sequence of decision rounds, each completed,    *)
(* timed out or failed, and ends with the DecisionTaskStarted event of the *)
(* decision task in hand.  The sticky worker (goroutine t1, context 1) got *)
(* the decision tasks it completed and now the one in hand, each after the *)
(* first with the events since the started event of the one before; the    *)
(* fresh worker (goroutine t2, context 2) gets the one in hand with the    *)
(* whole history, in pages.                                                *)
(***************************************************************************)
\* number of decision rounds before the decision task in hand
MaxRounds == 2

RoundKinds == {"completed", "timedout", "failed"}

RoundTypes(kind) ==
    IF kind = "completed"
    THEN <<DTScheduled, DTStarted, DTCompleted, ActScheduled, ActCompleted>>
    ELSE IF kind = "timedout" THEN <<DTScheduled, DTStarted, DTTimedOut>>
    ELSE <<DTScheduled, DTStarted, DTFailed>>

RECURSIVE RoundsTypes(_)
RoundsTypes(rounds) ==
    IF rounds = <<>> THEN <<>>
    ELSE RoundTypes(Head(rounds)) \o RoundsTypes(Tail(rounds))

HistoryOf(rounds) == EventsOf(<<WES>> \o RoundsTypes(rounds) \o <<DTScheduled, DTStarted>>)

ReplayHistories ==
    {HistoryOf(rounds) : rounds \in UNION {[1..n -> RoundKinds] : n \in 0..MaxRounds}}

\* the history cut into pages of size events
RECURSIVE Paged(_, _)
Paged(h, size) ==
    IF Len(h) <= size THEN <<h>>
    ELSE <<SubSeq(h, 1, size)>> \o Paged(SubSeq(h, size + 1, Len(h)), size)

RECURSIVE Concat(_)
Concat(pages) == IF pages = <<>> THEN <<>> ELSE Head(pages) \o Concat(Tail(pages))

\* started event ids of the completed decisions
CompletedStarted(h) ==
    {i \in 1..(Len(h) - 1) : h[i].type = DTStarted /\ h[i + 1].type = DTCompleted}

\* the service's previousStartedEventId for the decision task started at s
PrevCompleted(h, s) ==
    LET before == {i \in CompletedStarted(h) : i < s}
    IN  IF before = {} THEN 0 ELSE CHOOSE i \in before : \A j \in before : j <= i

\* started event ids of the decision tasks of the sticky worker
StickyStarted(h) == CompletedStarted(h) \cup {Len(h)}

NextStarted(h, s) ==
    LET after == {i \in StickyStarted(h) : i > s}
    IN  CHOOSE i \in after : \A j \in after : i <= j

StickyTask(h, s) ==
    [nil |-> FALSE, run |-> "r1", query |-> FALSE,
     events |-> SubSeq(h, PrevCompleted(h, s) + 1, s),
     startedEventId |-> s, previousStartedEventId |-> PrevCompleted(h, s),
     it |-> [pages |-> <<SubSeq(h, 1, s)>>, pos |-> 1]]

FreshTask(h, size) ==
    [nil |-> FALSE, run |-> "r1", query |-> FALSE,
     events |-> Paged(h, size)[1],
     startedEventId |-> Len(h), previousStartedEventId |-> PrevCompleted(h, Len(h)),
     it |-> [pages |-> Paged(h, size), pos |-> 1]]

\* the worker runs the code that made the history, and nothing fails
ReplayEnv ==
    [iterOk |-> TRUE, errAt |-> 0, outcome |-> "continue", code |-> "same",
     policy |-> "BlockWorkflow"]

ReplayInit ==
    /\ config = [disableStickyExecution |-> FALSE, policy |-> "BlockWorkflow",
                 code |-> "same"]
    /\ \E h \in ReplayHistories : \E size \in 1..Len(h) :
           /\ thr = [t \in Threads |->
                        [IdleThread EXCEPT
                            !.pc = "process",
                            !.wc = IF t = "t1" THEN 1 ELSE 2,
                            !.task = IF t = "t1" THEN StickyTask(h, NextStarted(h, 0))
                                     ELSE FreshTask(h, size)]]
           /\ tasksLeft = Cardinality(StickyStarted(h))
    /\ ctx = [c \in CtxIds |-> newContext("r1", config)]
    /\ workflowCache = [created |-> FALSE, entries |-> <<>>]
    /\ mutex = [c \in CtxIds |-> "free"]
    /\ evict = [c \in CtxIds |-> "none"]
    /\ resetQueue = [c \in CtxIds |-> 0]
    /\ crashed = "no"
    /\ AuxIdle

\* the sticky worker processes its next decision task on its context
ReplaySticky ==
    LET h == Concat(thr["t2"].task.it.pages)
        task == thr["t1"].task
        r == ContextProcessWorkflowTask(ctx[1], task, ReplayEnv)
    IN  /\ thr["t1"].pc = "process"
        /\ ctx' = [ctx EXCEPT ![1] = r.w]
        /\ tasksLeft' = tasksLeft - 1
        /\ thr' = [thr EXCEPT !["t1"] =
                      IF task.startedEventId = Len(h)
                      THEN [@ EXCEPT !.pc = "unlock", !.task = r.task, !.resp = r.resp,
                                     !.err = r.err]
                      ELSE [@ EXCEPT !.task = StickyTask(h, NextStarted(h, task.startedEventId)),
                                     !.resp = r.resp, !.err = r.err]]
        /\ UNCHANGED <<config, workflowCache, mutex, evict, resetQueue, crashed>>
        /\ UNCHANGED aux

\* the fresh worker processes the decision task in hand on a new context
ReplayFresh ==
    LET r == ContextProcessWorkflowTask(ctx[2], thr["t2"].task, ReplayEnv)
    IN  /\ thr["t2"].pc = "process"
        /\ ctx' = [ctx EXCEPT ![2] = r.w]
        /\ thr' = [thr EXCEPT !["t2"] = [@ EXCEPT !.pc = "unlock", !.resp = r.resp,
                                                  !.err = r.err]]
        /\ UNCHANGED <<config, workflowCache, mutex, evict, resetQueue, crashed, tasksLeft>>
        /\ UNCHANGED aux

ReplayNext == ReplaySticky \/ ReplayFresh

SpecReplay == ReplayInit /\ [][ReplayNext]_vars

\* C2: the sticky worker, its context having processed the prefix of the
\* history, and the fresh worker answer the decision task in hand with the
\* same response: the same decisions in the same order.
ReplayEquivalence ==
    (/\ thr["t1"].pc = "unlock" /\ thr["t2"].pc = "unlock"
     /\ ~isFullHistory(thr["t1"].task.events)) =>
        /\ thr["t1"].err = thr["t2"].err
        /\ thr["t1"].resp = thr["t2"].resp

(***************************************************************************)
(* Properties of the task handler (specification Spec).                    *)
(***************************************************************************)
StrictlyIncreasing(ids) == \A i \in 1..(Len(ids) - 1) : ids[i] < ids[i + 1]

\* the goroutine holds (or is about to release) the lock of its context
PassDone(t) == thr[t].pc \in {"unlock", "release"}

\* the handler holds a replay of the task's history from its first event and
\* nothing else; every decision of the response was made on such a replay
ReplayedFromStart(t) ==
    LET h == ctx[thr[t].wc].eventHandler
    IN  /\ ~h.nil
        /\ isFullHistory(thr[t].task.events)
        /\ thr[t].task.events = thr[t].task.it.pages[1]
        /\ h.processed # <<>> => h.processed[1] = 1
        /\ StrictlyIncreasing(h.processed)
        /\ \A i \in 1..Len(thr[t].resp.decisions) :
               LET at == thr[t].resp.decisions[i].at
               IN  at = <<>> \/ (at[1] = 1 /\ StrictlyIncreasing(at))

\* C1: a task with a non-empty history whose first event id is not the
\* cached context's previousStartedEventID + 1 is never processed on the
\* cached state: when its pass is over, either the re-fetch of the history
\* failed and no event was processed and no response made, or the handler
\* was rebuilt, the task carries the first page of the full history, and all
\* the handler processed and all the response decides is a replay from the
\* first event.
StaleTaskRebuilds ==
    \A t \in Threads :
        (PassDone(t) /\ thr[t].seen.cached /\ thr[t].seen.stale) =>
            IF thr[t].err = "IterError"
            THEN /\ ctx[thr[t].wc].eventHandler.processed = <<>>
                 /\ thr[t].resp = NilResponse
            ELSE /\ ReplayedFromStart(t)
                 /\ thr[t].task.query => ctx[thr[t].wc].previousStartedEventID = 0

\* a stale partial task on a cached context has been processed to a response
StaleTaskRebuilt ==
    \E t \in Threads :
        /\ PassDone(t) /\ thr[t].seen.cached /\ thr[t].seen.stale /\ thr[t].seen.partial
        /\ thr[t].err = "nil" /\ thr[t].resp.kind # "nil"
        /\ ctx[thr[t].wc].eventHandler.processed # <<>>

InCache(cache, c) == \E i \in 1..Len(cache.entries) : cache.entries[i] = c

\* C3: no step of a goroutine that is processing a query task increases the
\* previousStartedEventID of a context or puts a context into the sticky
\* cache.
QueryIsolation ==
    [][\A t \in Threads :
          (thr'[t] # thr[t] /\ (thr[t].task.query \/ thr'[t].task.query)) =>
              /\ \A c \in CtxIds :
                     ctx'[c].previousStartedEventID <= ctx[c].previousStartedEventID
              /\ \A c \in CtxIds : InCache(workflowCache', c) => InCache(workflowCache, c)]_vars

\* a query task has been answered on a cached context that a decision task
\* had advanced
QueryOnCachedContext ==
    \E t \in Threads :
        /\ PassDone(t) /\ thr[t].task.query /\ thr[t].seen.cached
        /\ thr[t].resp.kind = "RespondQueryTaskCompleted"
        /\ thr[t].seen.prev > 0
        /\ ctx[thr[t].wc].previousStartedEventID = thr[t].seen.prev

\* id of the last DecisionTaskStarted event the handler has processed, 0 if none
LastStartedProcessed(h) ==
    LET idx == {i \in 1..Len(h.processed) : ServerHistory[h.processed[i]].type = DTStarted}
    IN  IF idx = {} THEN 0
        ELSE h.processed[CHOOSE i \in idx : \A j \in idx : j <= i]

\* C4, as stated: at the end of every pass on a decision task,
\* previousStartedEventID is the id of the last DecisionTaskStarted event
\* the context has processed.
PreviousStartedIsLastProcessed ==
    \A t \in Threads :
        (PassDone(t) /\ ~thr[t].task.query) =>
            ctx[thr[t].wc].previousStartedEventID =
                LastStartedProcessed(ctx[thr[t].wc].eventHandler)

\* C4, amended: a destroyed context has previousStartedEventID zero; at the
\* end of a pass on a decision task that returned no error it is the task's
\* started event id, which is the last DecisionTaskStarted event the handler
\* processed; at the end of a pass on a query task it is what it was before,
\* or zero if the state was rebuilt.  (SetCurrentTask assigns it before the
\* events are processed, so a pass that returns an error leaves it ahead of
\* the events processed.)
PreviousStartedAfterPass ==
    /\ \A c \in CtxIds : ctx[c].eventHandler.nil => ctx[c].previousStartedEventID = 0
    /\ \A t \in Threads :
           LET w == ctx[thr[t].wc]
           IN  /\ (PassDone(t) /\ ~thr[t].task.query /\ thr[t].err = "nil") =>
                      /\ w.previousStartedEventID = thr[t].task.startedEventId
                      /\ w.previousStartedEventID = LastStartedProcessed(w.eventHandler)
               /\ (PassDone(t) /\ thr[t].task.query) =>
                      w.previousStartedEventID \in {0, thr[t].seen.prev}

\* a sticky decision task has advanced a cached context
StickyTaskAdvanced ==
    \E t \in Threads :
        /\ PassDone(t) /\ ~thr[t].task.query /\ thr[t].err = "nil"
        /\ thr[t].seen.cached /\ thr[t].seen.prev > 0
        /\ ctx[thr[t].wc].previousStartedEventID > thr[t].seen.prev

\* C5: the step of Unlock(err) before the mutex is released removes the run
\* id of the context from the sticky cache, the mutex still held, when err
\* is non-nil, or the context's stored err is non-nil, or the workflow is
\* completed, or sticky execution is disabled and no local activity work is
\* pending; otherwise it leaves the cache as it is.
UnlockRemovalCondition ==
    [][\A t \in Threads :
          (thr[t].pc = "unlock" /\ thr'[t].pc = "release") =>
              LET c == thr[t].wc
                  w == ctx[c]
                  pending == /\ ~w.isWorkflowCompleted /\ ~w.eventHandler.nil
                             /\ w.eventHandler.pendingLaTasks > 0
              IN  IF \/ thr[t].err # "nil"
                     \/ w.err # "nil"
                     \/ w.isWorkflowCompleted
                     \/ (config.disableStickyExecution /\ ~pending)
                  THEN /\ CacheIndex(workflowCache'.entries, w.runID) = 0
                       /\ mutex[c] = t /\ mutex'[c] = t
                  ELSE /\ workflowCache' = workflowCache
                       /\ evict' = evict]_vars

\* the context of a completed workflow has left the cache it was found in,
\* its mutex not yet released
CompletedContextRemoved ==
    \E t \in Threads :
        /\ thr[t].pc = "release" /\ thr[t].seen.cached /\ thr[t].err = "nil"
        /\ ctx[thr[t].wc].isWorkflowCompleted /\ ctx[thr[t].wc].err = "nil"
        /\ ~InCache(workflowCache, thr[t].wc)
        /\ mutex[thr[t].wc] = t

\* C6: a goroutine that found the event handler of its context null starts
\* its pass on a new handler that has processed nothing; and when its task
\* carried a partial history, no event is processed before the iterator has
\* been reset and the task's history replaced by the first page of the full
\* history (a failed re-fetch ends the pass with nothing processed).
DestroyedContextRebuilt ==
    \A t \in Threads :
        LET w == ctx[thr[t].wc]
        IN  /\ (thr[t].pc = "process" /\ thr[t].seen.destroyed) =>
                   /\ ~w.eventHandler.nil
                   /\ w.eventHandler.processed = <<>>
                   /\ w.eventHandler.decisions = <<>>
                   /\ w.previousStartedEventID = 0
            /\ (PassDone(t) /\ thr[t].seen.destroyed) =>
                   IF thr[t].err = "IterError"
                   THEN w.eventHandler.processed = <<>>
                   ELSE ReplayedFromStart(t)

\* a goroutine with a partial history holds a context it found destroyed
DestroyedContextFound ==
    \E t \in Threads :
        /\ thr[t].pc = "process" /\ thr[t].seen.destroyed /\ thr[t].seen.partial
        /\ isFullHistory(thr[t].task.events)
        /\ thr[t].task.it.pos = 1

\* the pass on context c has returned without a response, its local
\* activities pending
Paused(c) ==
    /\ ~ctx[c].currentDecisionTask.nil
    /\ hasPendingLocalActivityWork(ctx[c])
    /\ ctx[c].laSent > 0
    /\ \A t \in Threads : thr[t].wc = c => thr[t].pc \notin {"process", "unlock", "release"}

\* C7: the mutex of a context stays held during the pause between a pass
\* that returned without a response because local activities are pending
\* and ProcessLocalActivityResult: it is not free for another task to take,
\* and the eviction callback does not hold it.
MutexHeldThroughPause ==
    \A c \in CtxIds : Paused(c) => mutex[c] \notin {"free", "evict"}

\* the goroutine t has the lock of its context
Holds(t) == thr[t].pc \in {"process", "unlock", "release"}

\* C8: a goroutine and the eviction callback of its context exclude each
\* other, and the goroutine never processes on a null handler: while the
\* goroutine is between Lock and Unlock it holds the mutex, the handler is
\* not null and the callback is not between its Lock and Unlock; if the
\* goroutine found the state intact the callback has not cleared it yet; if
\* it found the state cleared it starts on a new handler that has processed
\* nothing, and what it has processed when its pass is over is a replay from
\* the first event.
EvictionRaceSafe ==
    \A t \in Threads :
        Holds(t) =>
            LET c == thr[t].wc
            IN  /\ mutex[c] = t
                /\ evict[c] \in {"none", "spawned", "done"}
                /\ ~ctx[c].eventHandler.nil
                /\ (thr[t].seen.cached /\ ~thr[t].seen.destroyed) => evict[c] # "done"
                /\ thr[t].seen.destroyed =>
                       /\ evict[c] = "done"
                       /\ thr[t].pc = "process" => ctx[c].eventHandler.processed = <<>>
                       /\ (PassDone(t) /\ thr[t].err = "nil") => ReplayedFromStart(t)

\* the callback won the race and the retriever has replayed the history on
\* the rebuilt handler
EvictionWonRace ==
    \E t \in Threads :
        /\ PassDone(t) /\ thr[t].seen.cached /\ thr[t].seen.destroyed
        /\ evict[thr[t].wc] = "done" /\ thr[t].err = "nil"
        /\ ctx[thr[t].wc].eventHandler.processed # <<>>

\* C9: a goroutine that got its context from the cache never runs its pass
\* on the handler state that a pass which returned an error left behind.
NoPassOnFailedState ==
    \A t \in Threads : (PassDone(t) /\ thr[t].seen.cached) => ~thr[t].seen.failed

\* C10: the eviction callback of a context enqueues exactly one
\* ResetStickyTaskList request iff the context, when the callback holds the
\* lock, has no stored error and is not completed; it does so before it
\* clears the state, and when it is about to unlock the context is destroyed.
EvictionResetsOnce ==
    \A c \in CtxIds :
        /\ evict[c] \in {"none", "spawned", "locked"} => resetQueue[c] = 0
        /\ evict[c] = "clear" =>
               resetQueue[c] = IF shouldResetStickyOnEviction(ctx[c]) THEN 1 ELSE 0
        /\ evict[c] \in {"unlock", "done"} => resetQueue[c] <= 1
        /\ evict[c] = "unlock" =>
               /\ isDestroyed(ctx[c])
               /\ ctx[c].previousStartedEventID = 0
               /\ ctx[c].currentDecisionTask.nil

\* the pass of goroutine t has ended and the replay matcher reported a
\* mismatch in it (which it does only on a non-query task with full history)
MismatchSeen(t) == PassDone(t) /\ thr[t].seen.mismatch

\* C11: under the FailWorkflow policy, a pass on a non-query task with full
\* history in which the replay matcher reported a mismatch returns a
\* RespondDecisionTaskCompleted whose decisions hold, after the decisions
\* accumulated before it, a FailWorkflowExecution decision with reason
\* "nondeterministic workflow", and no error; pending local activities do
\* not hold the response back.
MismatchFailsWorkflow ==
    \A t \in Threads :
        (MismatchSeen(t) /\ config.policy = "FailWorkflow") =>
            LET resp == thr[t].resp
                n == Len(resp.decisions)
            IN  /\ ~thr[t].task.query /\ isFullHistory(thr[t].task.events)
                /\ thr[t].err = "nil"
                /\ resp.kind = "RespondDecisionTaskCompleted"
                /\ n > 0
                /\ resp.decisions[n].type = "FailWorkflowExecution"
                /\ resp.decisions[n].reason = "nondeterministic workflow"
                /\ \A i \in 1..(n - 1) :
                       resp.decisions[i].type # "FailWorkflowExecution"

\* a mismatch under FailWorkflow in a pass that left local activities
\* pending and had accumulated a decision of the workflow
MismatchWithPendingWork ==
    \E t \in Threads :
        /\ MismatchSeen(t) /\ config.policy = "FailWorkflow"
        /\ ctx[thr[t].wc].eventHandler.pendingLaTasks > 0
        /\ Len(thr[t].resp.decisions) > 1

\* C12: under the BlockWorkflow policy, a pass in which the replay matcher
\* reported a mismatch returns no response and the mismatch error, and the
\* Unlock that follows removes the run id from the sticky cache.
MismatchBlocksWorkflow ==
    \A t \in Threads :
        (MismatchSeen(t) /\ config.policy = "BlockWorkflow") =>
            /\ thr[t].resp = NilResponse
            /\ thr[t].err = "NonDeterministicError"
            /\ thr[t].pc = "release" => ~InCache(workflowCache, thr[t].wc)

\* a mismatch under BlockWorkflow on a context found in the cache, after the
\* Unlock step
MismatchBlockedAndRemoved ==
    \E t \in Threads :
        /\ MismatchSeen(t) /\ config.policy = "BlockWorkflow"
        /\ thr[t].pc = "release" /\ thr[t].seen.cached

(***************************************************************************)
(* The reorderer on its own, feeding the event handler (specification      *)
(* SpecReorder).  A history is a sequence of decision rounds: completed     *)
(* (the decision scheduled an activity, which completed), completed with    *)
(* markers (it also recorded a local activity marker and a version          *)
(* marker), timed out or failed; it may end with the DecisionTaskStarted    *)
(* event of a decision task in hand.  The reorderer is given the history    *)
(* from its first event, or (a sticky task) the events after a completed    *)
(* decision's DecisionTaskStarted, cut into pages: the first page is in     *)
(* the task, the iterator hands out the others.                             *)
(*   reorder.events    the events the reorderer is given                    *)
(*   reorder.eh        the reorderer                                        *)
(*   reorder.h         the event handler                                    *)
(*   reorder.batches   the batches NextDecisionEvents has returned          *)
(*   reorder.calls     per batch, the ProcessEvent calls with their flags   *)
(*   reorder.produced  per batch, the decisions the handler held after the  *)
(*                     calls                                                *)
(*   reorder.collected per batch, the decisions added to replayDecisions    *)
(*   reorder.replayDecisions, reorder.respondEvents   as in the loop        *)
(*   reorder.done      NextDecisionEvents has returned an empty batch       *)
(***************************************************************************)
MaxReorderRounds == 3

ReorderRoundKinds == {"completed", "markers", "timedout", "failed"}

Named(ty, name) == [type |-> ty, name |-> name]

ReorderRound(kind) ==
    IF kind = "completed"
    THEN <<Named(DTScheduled, ""), Named(DTStarted, ""), Named(DTCompleted, ""),
           Named(ActScheduled, ""), Named(ActCompleted, "")>>
    ELSE IF kind = "markers"
    THEN <<Named(DTScheduled, ""), Named(DTStarted, ""), Named(DTCompleted, ""),
           Named(MarkerRecorded, localActivityMarkerName),
           Named(MarkerRecorded, versionMarkerName),
           Named(ActScheduled, ""), Named(ActCompleted, "")>>
    ELSE IF kind = "timedout"
    THEN <<Named(DTScheduled, ""), Named(DTStarted, ""), Named(DTTimedOut, "")>>
    ELSE <<Named(DTScheduled, ""), Named(DTStarted, ""), Named(DTFailed, "")>>

RECURSIVE ReorderRounds(_)
ReorderRounds(rounds) ==
    IF rounds = <<>> THEN <<>>
    ELSE ReorderRound(Head(rounds)) \o ReorderRounds(Tail(rounds))

\* ids are dense from 1
NamedEvents(named) ==
    [i \in 1..Len(named) |-> [id |-> i, type |-> named[i].type, name |-> named[i].name]]

ReorderHistories ==
    {NamedEvents(<<Named(WES, "")>> \o ReorderRounds(rounds) \o tail) :
        rounds \in UNION {[1..n -> ReorderRoundKinds] : n \in 0..MaxReorderRounds},
        tail \in {<<>>, <<Named(DTScheduled, ""), Named(DTStarted, "")>>}}

\* where the events given to the reorderer start: the first event, or the
\* event after the DecisionTaskStarted of a completed decision
ReorderStarts(h) == {1} \cup {s + 1 : s \in CompletedStarted(h)}

ReorderTask(events, size, prev) ==
    [nil |-> FALSE, run |-> "r1", query |-> FALSE,
     events |-> Paged(events, size)[1],
     startedEventId |-> events[Len(events)].id,
     previousStartedEventId |-> prev,
     it |-> [pages |-> Paged(events, size), pos |-> 1]]

ReorderInit ==
    /\ config = [disableStickyExecution |-> FALSE, policy |-> "BlockWorkflow",
                 code |-> "same"]
    /\ workflowCache = [created |-> FALSE, entries |-> <<>>]
    /\ ctx = [c \in CtxIds |-> NilContext]
    /\ mutex = [c \in CtxIds |-> "free"]
    /\ thr = [t \in Threads |-> IdleThread]
    /\ evict = [c \in CtxIds |-> "none"]
    /\ resetQueue = [c \in CtxIds |-> 0]
    /\ crashed = "no"
    /\ tasksLeft = 0
    /\ match = <<>> /\ invoker = <<>> /\ activity = <<>> /\ sticky = <<>>
    /\ \E h \in ReorderHistories : \E from \in ReorderStarts(h) :
           LET events == SubSeq(h, from, Len(h))
           IN  \E size \in 1..Len(events),
                  prev \in {from - 1, PrevCompleted(h, Len(h) + 1)} :
                   /\ from > 1 => prev = from - 1
                   /\ reorder = [events |-> events,
                                 eh |-> newHistory(ReorderTask(events, size, prev)),
                                 h |-> newWorkflowExecutionEventHandler,
                                 batches |-> <<>>,
                                 calls |-> <<>>,
                                 produced |-> <<>>,
                                 collected |-> <<>>,
                                 replayDecisions |-> <<>>,
                                 respondEvents |-> <<>>,
                                 done |-> FALSE]

\* one turn of the ProcessEvents loop whose batch is not empty: the markers
\* and the events of the batch go to the event handler
ReorderBatch ==
    LET nd == NextDecisionEvents(reorder.eh)
        r == ApplyCalls(reorder.h, BatchCalls(nd.result, nd.markers), 0, ReplayEnv)
        st == [h |-> reorder.h, eh |-> reorder.eh,
               replayDecisions |-> reorder.replayDecisions,
               respondEvents |-> reorder.respondEvents, n |-> 0, err |-> "nil"]
        bd == BatchDone(st, nd, r, ~isFullHistory(reorder.events))
    IN  /\ ~reorder.done
        /\ Len(nd.result) > 0
        /\ reorder' = [reorder EXCEPT
                           !.eh = bd.eh, !.h = bd.h,
                           !.batches = Append(@, nd.result),
                           !.calls = Append(@, BatchCallFlags(nd.eh, nd.result,
                                                              nd.markers)),
                           !.produced = Append(@, r.h.decisions),
                           !.collected =
                               Append(@, SubSeq(bd.replayDecisions,
                                                Len(reorder.replayDecisions) + 1,
                                                Len(bd.replayDecisions))),
                           !.replayDecisions = bd.replayDecisions,
                           !.respondEvents = bd.respondEvents]
        /\ UNCHANGED <<config, workflowCache, ctx, mutex, thr, evict, resetQueue,
                       crashed, tasksLeft, match, invoker, activity, sticky>>

\* the turn that gets an empty batch: the loop ends
ReorderEnd ==
    LET nd == NextDecisionEvents(reorder.eh)
    IN  /\ ~reorder.done
        /\ Len(nd.result) = 0
        /\ reorder' = [reorder EXCEPT !.eh = nd.eh, !.done = TRUE]
        /\ UNCHANGED <<config, workflowCache, ctx, mutex, thr, evict, resetQueue,
                       crashed, tasksLeft, match, invoker, activity, sticky>>

ReorderNext == ReorderBatch \/ ReorderEnd

SpecReorder == ReorderInit /\ [][ReorderNext]_vars

\* the outcome of the decision task started at position i of events: the
\* first DecisionTaskCompleted, DecisionTaskTimedOut or DecisionTaskFailed
\* event after it is a time-out or a failure
DecisionOutcomeFailed(events, i) ==
    LET idx == {j \in (i + 1)..Len(events) :
                   events[j].type \in {DTCompleted, DTTimedOut, DTFailed}}
    IN  /\ idx # {}
        /\ events[CHOOSE j \in idx : \A k \in idx : j <= k].type \in {DTTimedOut, DTFailed}

\* the events of the given ones that the reorderer is to emit
EmittedEvents(events) ==
    LET Kept(i) == /\ events[i].type \notin {DTCompleted, DTScheduled, DTTimedOut, DTFailed}
                   /\ events[i].type = DTStarted => ~DecisionOutcomeFailed(events, i)
        RECURSIVE From(_)
        From(i) == IF i > Len(events) THEN <<>>
                   ELSE IF Kept(i) THEN <<events[i]>> \o From(i + 1) ELSE From(i + 1)
    IN  From(1)

\* C13: when NextDecisionEvents has returned its last batch, the batches it
\* returned, one after the other, are the events it was given without the
\* DecisionTaskCompleted, DecisionTaskScheduled, DecisionTaskTimedOut and
\* DecisionTaskFailed events and without the DecisionTaskStarted events of
\* failed or timed-out decisions, in their order.
BatchesAreFilteredHistory ==
    reorder # <<>> /\ reorder.done =>
        Concat(reorder.batches) = EmittedEvents(reorder.events)

\* C14: no batch holds the DecisionTaskStarted event of a decision that
\* failed or timed out; a DecisionTaskStarted event in a batch is its last
\* element; and when the last batch has been returned every
\* DecisionTaskStarted event of another decision is in a batch.
StartedEndsBatch ==
    reorder # <<>> =>
        LET events == reorder.events
            first == events[1].id
            InBatch(e) == \E b \in 1..Len(reorder.batches) :
                              \E k \in 1..Len(reorder.batches[b]) :
                                  reorder.batches[b][k] = e
        IN  /\ \A b \in 1..Len(reorder.batches) :
                   \A k \in 1..Len(reorder.batches[b]) :
                       LET e == reorder.batches[b][k]
                       IN  e.type = DTStarted =>
                               /\ ~DecisionOutcomeFailed(events, e.id - first + 1)
                               /\ k = Len(reorder.batches[b])
            /\ reorder.done =>
                   \A i \in 1..Len(events) :
                       (events[i].type = DTStarted /\ ~DecisionOutcomeFailed(events, i))
                           => InBatch(events[i])

\* the positions of event id in the ids passed to ProcessEvent
PassedAt(id) ==
    {p \in 1..Len(reorder.h.processed) : reorder.h.processed[p] = id}

\* the DecisionTaskStarted event of the decision that produced the event at
\* position i of events: the last one before it (0: it is not among events)
ProducedBy(events, i) ==
    LET before == {j \in 1..(i - 1) : events[j].type = DTStarted}
    IN  IF before = {} THEN 0
        ELSE events[CHOOSE j \in before : \A k \in before : k <= j].id

\* C15: every MarkerRecorded event is passed to ProcessEvent at most once; a
\* local activity marker is passed only after the DecisionTaskStarted event
\* of the decision that produced it, and a marker of another kind before
\* every event of the batch that ends in that DecisionTaskStarted event
\* (the markers in that batch, which a decision before produced, are not
\* passed with it).
MarkersPassedOnceInOrder ==
    reorder # <<>> =>
        \A i \in 1..Len(reorder.events) :
            LET m == reorder.events[i]
                d == ProducedBy(reorder.events, i)
            IN  m.type = MarkerRecorded =>
                    /\ Cardinality(PassedAt(m.id)) <= 1
                    /\ \A p \in PassedAt(m.id) :
                           IF m.name = localActivityMarkerName
                           THEN \E q \in PassedAt(d) : q < p
                           ELSE \E b \in 1..Len(reorder.batches) :
                                    LET batch == reorder.batches[b]
                                    IN  /\ batch[Len(batch)].id = d
                                        /\ \A k \in 1..Len(batch) :
                                               batch[k].type # MarkerRecorded =>
                                                   /\ PassedAt(batch[k].id) # {}
                                                   /\ \A q \in PassedAt(batch[k].id) :
                                                          p < q

\* the replay is over and a local activity marker and a marker of another
\* kind have been passed to ProcessEvent
MarkersOfBothKindsPassed ==
    /\ reorder # <<>> /\ reorder.done
    /\ \E i, j \in 1..Len(reorder.events) :
           /\ reorder.events[i].type = MarkerRecorded
           /\ reorder.events[i].name = localActivityMarkerName
           /\ reorder.events[j].type = MarkerRecorded
           /\ reorder.events[j].name # localActivityMarkerName
           /\ PassedAt(reorder.events[i].id) # {}
           /\ PassedAt(reorder.events[j].id) # {}

(***************************************************************************)
(* The replay matcher on its own (specification SpecMatch):                *)
(* matchReplayWithHistory applied to sequences of decisions and of         *)
(* events.                                                                 *)
(*   match.decisions, match.events   the arguments                         *)
(*   match.result                    the error returned ("unset" before    *)
(*                                   the call)                             *)
(***************************************************************************)
MaxMatchLen == 3

MatchDecisions ==
    {[createNewDecision("ScheduleActivityTask") EXCEPT !.name = "a"],
     [createNewDecision("ScheduleActivityTask") EXCEPT !.name = "b"],
     [createNewDecision("RecordMarker") EXCEPT !.name = versionMarkerName],
     [createNewDecision("RecordMarker") EXCEPT !.name = localActivityMarkerName],
     createNewDecision("CompleteWorkflowExecution")}

MatchEvents ==
    {[Ev(0, ActScheduled) EXCEPT !.name = "a"],
     [Ev(0, "TimerStarted") EXCEPT !.name = "a"],
     [Ev(0, MarkerRecorded) EXCEPT !.name = mutableSideEffectMarkerName],
     [Ev(0, MarkerRecorded) EXCEPT !.name = localActivityMarkerName],
     Ev(0, "WorkflowExecutionCompleted")}

SeqsUpTo(S, n) == UNION {[1..k -> S] : k \in 0..n}

MatchInit ==
    /\ config = [disableStickyExecution |-> FALSE, policy |-> "BlockWorkflow",
                 code |-> "same"]
    /\ workflowCache = [created |-> FALSE, entries |-> <<>>]
    /\ ctx = [c \in CtxIds |-> NilContext]
    /\ mutex = [c \in CtxIds |-> "free"]
    /\ thr = [t \in Threads |-> IdleThread]
    /\ evict = [c \in CtxIds |-> "none"]
    /\ resetQueue = [c \in CtxIds |-> 0]
    /\ crashed = "no"
    /\ tasksLeft = 0
    /\ reorder = <<>> /\ invoker = <<>> /\ activity = <<>> /\ sticky = <<>>
    /\ \E ds \in SeqsUpTo(MatchDecisions, MaxMatchLen),
          es \in SeqsUpTo(MatchEvents, MaxMatchLen) :
           match = [decisions |-> ds, events |-> es, result |-> "unset"]

MatchCall ==
    /\ match.result = "unset"
    /\ match' = [match EXCEPT
                    !.result = matchReplayWithHistory(match.decisions, match.events)]
    /\ UNCHANGED <<config, workflowCache, ctx, mutex, thr, evict, resetQueue,
                   crashed, tasksLeft, reorder, invoker, activity, sticky>>

MatchNext == MatchCall

SpecMatch == MatchInit /\ [][MatchNext]_vars

\* a version marker or mutable side effect marker entry, decision or event
IsSkippedMarker(x) ==
    /\ x.type \in {"RecordMarker", "MarkerRecorded"}
    /\ x.name \in {"Version", "MutableSideEffect"}

\* C16: matchReplayWithHistory returns no error iff, the version marker and
\* mutable side effect marker entries deleted from both sequences, the
\* two have the same length and the i-th decision matches the i-th event for
\* every i; when all the pairs match and the decisions left are fewer it
\* reports a missing replay decision, and when the events left are fewer an
\* extra replay decision.
MatchIffFilteredEqual ==
    (match # <<>> /\ match.result # "unset") =>
        LET Kept(x) == ~IsSkippedMarker(x)
            ds == SelectSeq(match.decisions, Kept)
            es == SelectSeq(match.events, Kept)
            n == IF Len(ds) < Len(es) THEN Len(ds) ELSE Len(es)
            pairs == \A i \in 1..n : isDecisionMatchEvent(ds[i], es[i])
        IN  /\ match.result = "nil" <=> (Len(ds) = Len(es) /\ pairs)
            /\ (pairs /\ Len(ds) < Len(es)) => match.result = "missing replay decision"
            /\ (pairs /\ Len(ds) > Len(es)) => match.result = "extra replay decision"

\* the matcher accepted sequences that differ in their skipped markers only
MatchedAcrossSkippedMarkers ==
    /\ match # <<>> /\ match.result = "nil"
    /\ Len(match.decisions) = MaxMatchLen /\ Len(match.events) = MaxMatchLen
    /\ \E i \in 1..Len(match.decisions) : IsSkippedMarker(match.decisions[i])
    /\ \E i \in 1..Len(match.events) : IsSkippedMarker(match.events[i])
    /\ \E i \in 1..Len(match.decisions) : ~IsSkippedMarker(match.decisions[i])
    /\ IsSkippedMarker(match.decisions[1]) /\ ~IsSkippedMarker(match.events[1])

(***************************************************************************)
(* The heartbeat invoker of one activity (specification SpecHeartbeat).     *)
(* Heartbeat and Close run under the invoker's mutex from their first to    *)
(* their last statement, so each is one step; the task that Heartbeat       *)
(* starts for a batch window waits outside the mutex (select), takes the    *)
(* mutex to close the window, and calls Heartbeat after it has released it. *)
(*   hbBatchEndTimer      "nil", or the state of the timer: "running",      *)
(*                        "fired" (its channel holds the tick), "drained"   *)
(*                        (the tick was received), "stopped"                *)
(*   lastDetailsToReport  0 (nil) or the details                            *)
(*   closed               closeCh is closed                                 *)
(*   fault                the panic that ended the process                  *)
(*   tasks                the tasks started for the batch windows: pc,      *)
(*                        detailsToReport, and what the task saw and did    *)
(*   sent                 the details of the RecordActivityHeartbeat RPCs   *)
(*   cancels              calls of cancelHandler                            *)
(*   calls, closes        Heartbeat calls of the activity, Close calls      *)
(*   reported             the details of the activity's last call           *)
(*   lastCall             the last Heartbeat call (the activity's or a      *)
(*                        task's): its number, details, whether a window    *)
(*                        was open, and the error returned                  *)
(* The n-th call of the activity reports details n.                        *)
(***************************************************************************)
MaxHeartbeats == 4
MaxCloses == 2

\* what the RecordActivityHeartbeat RPC returns
RpcResults == {"nil", "CanceledError", "EntityNotExistsError", "ServiceError"}

newServiceInvoker ==
    [hbBatchEndTimer |-> "nil", lastDetailsToReport |-> 0, closed |-> FALSE,
     fault |-> "none", tasks |-> <<>>, sent |-> <<>>, cancels |-> 0,
     calls |-> 0, closes |-> 0, reported |-> 0,
     lastCall |-> [n |-> 0, details |-> 0, open |-> FALSE, err |-> "nil"]]

\* the task of a batch window, waiting in its select
NewTask == [pc |-> "select", detailsToReport |-> 0, pending |-> 0,
            closedWindow |-> FALSE, flushed |-> FALSE]

\* faulty variant: the cancel handler is called on every RPC error
internalHeartBeatCancelsOnError(i, details, rpc) ==
    [i |-> [i EXCEPT !.sent = Append(@, details),
                     !.cancels = IF rpc # "nil" THEN @ + 1 ELSE @],
     isActivityCancelled |-> rpc # "nil",
     err |-> rpc]

\* internalHeartBeat: the RPC, and the cancel handler on a cancellation
internalHeartBeat(i, details, rpc) ==
    [i |-> [i EXCEPT !.sent = Append(@, details),
                     !.cancels = IF rpc \in {"CanceledError", "EntityNotExistsError"}
                                 THEN @ + 1 ELSE @],
     isActivityCancelled |-> rpc \in {"CanceledError", "EntityNotExistsError"},
     err |-> rpc]

\* faulty variant: the call does not look for an open batch window
HeartbeatUnbatched(i, details, rpc) ==
    LET r == internalHeartBeat(i, details, rpc)
        called == [r.i EXCEPT !.lastCall = [n |-> @.n + 1, details |-> details,
                                            open |-> i.hbBatchEndTimer # "nil",
                                            err |-> r.err]]
    IN  IF r.err = "nil" \/ r.isActivityCancelled
        THEN [called EXCEPT !.lastDetailsToReport = 0,
                            !.hbBatchEndTimer = "running",
                            !.tasks = Append(@, NewTask)]
        ELSE called

\* Heartbeat(details), the RPC returning rpc if it is made
Heartbeat(i, details, rpc) ==
    IF i.hbBatchEndTimer # "nil"
    THEN [i EXCEPT !.lastDetailsToReport = details,
                   !.lastCall = [n |-> @.n + 1, details |-> details,
                                 open |-> TRUE, err |-> "nil"]]
    ELSE LET r == internalHeartBeat(i, details, rpc)
             called == [r.i EXCEPT !.lastCall = [n |-> @.n + 1, details |-> details,
                                                 open |-> FALSE, err |-> r.err]]
         IN  IF r.err = "nil" \/ r.isActivityCancelled
             THEN [called EXCEPT !.lastDetailsToReport = 0,
                                 !.hbBatchEndTimer = "running",
                                 !.tasks = Append(@, NewTask)]
             ELSE called

HbInit ==
    /\ config = [disableStickyExecution |-> FALSE, policy |-> "BlockWorkflow",
                 code |-> "same"]
    /\ workflowCache = [created |-> FALSE, entries |-> <<>>]
    /\ ctx = [c \in CtxIds |-> NilContext]
    /\ mutex = [c \in CtxIds |-> "free"]
    /\ thr = [t \in Threads |-> IdleThread]
    /\ evict = [c \in CtxIds |-> "none"]
    /\ resetQueue = [c \in CtxIds |-> 0]
    /\ crashed = "no"
    /\ tasksLeft = 0
    /\ reorder = <<>> /\ match = <<>> /\ activity = <<>> /\ sticky = <<>>
    /\ invoker = newServiceInvoker

HbUnchanged ==
    UNCHANGED <<config, workflowCache, ctx, mutex, thr, evict, resetQueue,
                crashed, tasksLeft, reorder, match, activity, sticky>>

\* the activity calls Heartbeat; it does so before Execute closes the invoker
ActivityHeartbeat(rpc) ==
    /\ invoker.fault = "none" /\ ~invoker.closed
    /\ invoker.calls < MaxHeartbeats
    /\ invoker' = [Heartbeat(invoker, invoker.calls + 1, rpc) EXCEPT
                      !.calls = @ + 1, !.reported = invoker.calls + 1]
    /\ HbUnchanged

\* the timer of the batch window fires
TimerFires ==
    /\ invoker.fault = "none" /\ invoker.hbBatchEndTimer = "running"
    /\ invoker' = [invoker EXCEPT !.hbBatchEndTimer = "fired"]
    /\ HbUnchanged

\* the select of task k receives from the timer's channel
TaskTimer(k) ==
    /\ invoker.fault = "none" /\ invoker.tasks[k].pc = "select"
    /\ invoker.hbBatchEndTimer = "fired"
    /\ invoker' = [invoker EXCEPT !.tasks[k].pc = "lock",
                                  !.tasks[k].pending = invoker.lastDetailsToReport,
                                  !.hbBatchEndTimer = "drained"]
    /\ HbUnchanged

\* the select of task k receives from closeCh: the task returns
TaskClosed(k) ==
    /\ invoker.fault = "none" /\ invoker.tasks[k].pc = "select"
    /\ invoker.closed
    /\ invoker' = [invoker EXCEPT !.tasks[k].pc = "returned",
                                  !.tasks[k].pending = invoker.lastDetailsToReport]
    /\ HbUnchanged

\* task k closes the batch window under the mutex
TaskCloseWindow(k) ==
    /\ invoker.fault = "none" /\ invoker.tasks[k].pc = "lock"
    /\ invoker' = [invoker EXCEPT
                      !.tasks[k].detailsToReport = invoker.lastDetailsToReport,
                      !.tasks[k].closedWindow = TRUE,
                      !.tasks[k].pc = IF invoker.lastDetailsToReport # 0
                                      THEN "flush" ELSE "done",
                      !.hbBatchEndTimer = "nil"]
    /\ HbUnchanged

\* task k reports the details it took
TaskFlush(k, rpc) ==
    /\ invoker.fault = "none" /\ invoker.tasks[k].pc = "flush"
    /\ invoker' = [Heartbeat(invoker, invoker.tasks[k].detailsToReport, rpc) EXCEPT
                      !.tasks[k].pc = "done", !.tasks[k].flushed = TRUE]
    /\ HbUnchanged

\* the invoker after Close(): closeCh is closed (a panic if it was closed
\* already) and a running timer is stopped; the cancel handler is not called
invokerClose(i) ==
    IF i.closed
    THEN [i EXCEPT !.closes = @ + 1, !.fault = "close of closed channel"]
    ELSE [i EXCEPT !.closes = @ + 1,
                   !.closed = TRUE,
                   !.hbBatchEndTimer = IF @ = "running" THEN "stopped" ELSE @]

Close ==
    /\ invoker.fault = "none" /\ invoker.closes < MaxCloses
    /\ invoker' = invokerClose(invoker)
    /\ HbUnchanged

TaskStep ==
    \E k \in 1..Len(invoker.tasks) :
        \/ TaskTimer(k)
        \/ TaskClosed(k)
        \/ TaskCloseWindow(k)
        \/ \E rpc \in RpcResults : TaskFlush(k, rpc)

HbNext ==
    \/ \E rpc \in RpcResults : ActivityHeartbeat(rpc)
    \/ TimerFires
    \/ \E k \in 1..Len(invoker.tasks) : TaskTimer(k)
    \/ \E k \in 1..Len(invoker.tasks) : TaskClosed(k)
    \/ \E k \in 1..Len(invoker.tasks) : TaskCloseWindow(k)
    \/ \E k \in 1..Len(invoker.tasks), rpc \in RpcResults : TaskFlush(k, rpc)
    \/ Close

SpecHeartbeat == HbInit /\ [][HbNext]_vars

\* the timer fires and the tasks run; the activity and Execute call when
\* they choose
FairSpecHeartbeat ==
    /\ HbInit /\ [][HbNext]_vars
    /\ WF_vars(TimerFires)
    /\ WF_vars(TaskStep)

\* C17: a Heartbeat call made while a batch window is open makes no RPC,
\* sets lastDetailsToReport to its details and returns nil; no step makes
\* more than one RecordActivityHeartbeat RPC, and none is made while a
\* window is open: the RPCs are the one that opens a window and the one a
\* window's task makes after it has closed the window.
HeartbeatBatching ==
    [][/\ (invoker'.lastCall.n # invoker.lastCall.n /\ invoker.hbBatchEndTimer # "nil")
              => /\ invoker'.sent = invoker.sent
                 /\ invoker'.lastDetailsToReport = invoker'.lastCall.details
                 /\ invoker'.lastCall.err = "nil"
       /\ invoker'.sent # invoker.sent
              => /\ invoker.hbBatchEndTimer = "nil"
                 /\ Len(invoker'.sent) = Len(invoker.sent) + 1
       /\ \A k \in 1..Len(invoker.tasks) :
              invoker.tasks[k].flushed => invoker'.tasks[k] = invoker.tasks[k]]_vars

\* every call of the activity after the first fell in the batch window the
\* first opened: one RPC was made
CallsBatchedInWindow ==
    /\ invoker.calls = MaxHeartbeats
    /\ Len(invoker.sent) = 1
    /\ invoker.hbBatchEndTimer = "running"
    /\ invoker.lastCall.open
    /\ invoker.lastDetailsToReport = MaxHeartbeats

\* C18: the details of the activity's most recent Heartbeat call are
\* eventually sent in a RecordActivityHeartbeat RPC (unless the activity
\* calls again before).
HeartbeatDelivered ==
    \A d \in 1..MaxHeartbeats :
        [](invoker.reported = d =>
               <>(\/ invoker.reported # d
                  \/ \E j \in 1..Len(invoker.sent) : invoker.sent[j] = d))

\* C19: a window's task that found the invoker closed has closed the window
\* and, lastDetailsToReport set, has called Heartbeat with it when it ends.
ClosedTaskFlushes ==
    \A k \in 1..Len(invoker.tasks) :
        invoker.tasks[k].pc = "returned" =>
            /\ invoker.tasks[k].closedWindow
            /\ invoker.tasks[k].pending # 0 => invoker.tasks[k].flushed

\* C20: Close called twice or more raises no fault and leaves the invoker
\* closed.
CloseIdempotent ==
    invoker.closes >= 2 => (invoker.fault = "none" /\ invoker.closed)

(***************************************************************************)
(* The activity task handler's Execute (lines 1359-1408) with the invoker  *)
(* it constructs.  activity is the state of one Execute call:              *)
(*   pc            "lookup" (invoker constructed, Close deferred),         *)
(*                 "body" (the activity implementation runs), "closing"    *)
(*                 (the return values are set, the deferred Close is to    *)
(*                 run), "returned"                                        *)
(*   registered    getActivity finds an implementation                     *)
(*   result, err   the values Execute returns                              *)
(*   panicked      the implementation panicked                             *)
(*   panicCounter  the metric ActivityTaskPanicCounter                     *)
(***************************************************************************)
\* what the activity implementation returns as its error
ActivityErrors == {"nil", "ErrActivityResultPending", "CanceledError", "CustomError"}

NoResponse == [type |-> "nil", reason |-> ""]

\* the respond request for the activity's (output, err)
convertActivityResultToRespondRequest(err) ==
    CASE err = "nil" -> [type |-> "RespondActivityTaskCompleted", reason |-> ""]
      [] err = "ErrActivityResultPending" -> NoResponse
      [] err = "CanceledError" -> [type |-> "RespondActivityTaskCanceled", reason |-> ""]
      [] OTHER -> [type |-> "RespondActivityTaskFailed", reason |-> err]

\* Execute after lines 1371-1373: the invoker is constructed with the
\* context's cancel function as its cancel handler, and Close is deferred
ExecInit ==
    /\ config = [disableStickyExecution |-> FALSE, policy |-> "BlockWorkflow",
                 code |-> "same"]
    /\ workflowCache = [created |-> FALSE, entries |-> <<>>]
    /\ ctx = [c \in CtxIds |-> NilContext]
    /\ mutex = [c \in CtxIds |-> "free"]
    /\ thr = [t \in Threads |-> IdleThread]
    /\ evict = [c \in CtxIds |-> "none"]
    /\ resetQueue = [c \in CtxIds |-> 0]
    /\ crashed = "no"
    /\ tasksLeft = 0
    /\ reorder = <<>> /\ match = <<>> /\ sticky = <<>>
    /\ invoker = newServiceInvoker
    /\ \E registered \in BOOLEAN :
           activity = [pc |-> "lookup", registered |-> registered,
                       result |-> NoResponse, err |-> "nil",
                       panicked |-> FALSE, panicCounter |-> 0]

ExecUnchanged ==
    UNCHANGED <<config, workflowCache, ctx, mutex, thr, evict, resetQueue,
                crashed, tasksLeft, reorder, match, sticky>>

\* lines 1376-1381: no implementation is an error return; the panic handler
\* is deferred only after that
ExecuteLookup ==
    /\ activity.pc = "lookup"
    /\ activity' = IF activity.registered
                   THEN [activity EXCEPT !.pc = "body"]
                   ELSE [activity EXCEPT !.pc = "closing",
                                         !.err = "unable to find activityType"]
    /\ UNCHANGED invoker
    /\ ExecUnchanged

\* the implementation calls Heartbeat through the invoker in its context
ExecuteHeartbeat(rpc) ==
    /\ activity.pc = "body"
    /\ ActivityHeartbeat(rpc)

\* lines 1400-1407: the implementation returns err; the deadline of the
\* context has passed or not
ActivityReturns(err, deadlineExceeded) ==
    /\ activity.pc = "body"
    /\ activity' = IF deadlineExceeded
                   THEN [activity EXCEPT !.pc = "closing",
                                         !.err = "DeadlineExceeded"]
                   ELSE [activity EXCEPT
                             !.pc = "closing",
                             !.result = convertActivityResultToRespondRequest(err)]
    /\ UNCHANGED invoker
    /\ ExecUnchanged

\* faulty variant: the panic is not recovered into a response
ActivityPanicsUnrecovered ==
    /\ activity.pc = "body"
    /\ activity' = [activity EXCEPT !.pc = "closing",
                                    !.panicked = TRUE,
                                    !.err = "PanicError"]
    /\ UNCHANGED invoker
    /\ ExecUnchanged

\* lines 1384-1396: the implementation panics and the deferred handler
\* recovers: the metric is counted and the return values are set
ActivityPanics ==
    /\ activity.pc = "body"
    /\ activity' = [activity EXCEPT
                        !.pc = "closing",
                        !.panicked = TRUE,
                        !.panicCounter = @ + 1,
                        !.result = convertActivityResultToRespondRequest("PanicError"),
                        !.err = "nil"]
    /\ UNCHANGED invoker
    /\ ExecUnchanged

\* line 1373: the deferred invoker.Close() runs last, then Execute returns
ExecuteClose ==
    /\ activity.pc = "closing"
    /\ invoker' = invokerClose(invoker)
    /\ activity' = [activity EXCEPT !.pc = "returned"]
    /\ ExecUnchanged

ExecNext ==
    \/ ExecuteLookup
    \/ \E rpc \in RpcResults : ExecuteHeartbeat(rpc)
    \/ \E err \in ActivityErrors, deadlineExceeded \in BOOLEAN :
           ActivityReturns(err, deadlineExceeded)
    \/ ActivityPanics
    \/ ExecuteClose
    \/ TimerFires
    \/ \E k \in 1..Len(invoker.tasks) : TaskTimer(k)
    \/ \E k \in 1..Len(invoker.tasks) : TaskClosed(k)
    \/ \E k \in 1..Len(invoker.tasks) : TaskCloseWindow(k)
    \/ \E k \in 1..Len(invoker.tasks), rpc \in RpcResults : TaskFlush(k, rpc)

SpecExecute == ExecInit /\ [][ExecNext]_vars

\* C21: once Execute has returned (its deferred Close has run), the cancel
\* handler given to the invoker (the activity context's cancel function) has
\* been invoked.
ClosedInvokerCancelled ==
    activity.pc = "returned" => invoker.cancels >= 1

\* C27: when the activity implementation panics, Execute returns a
\* failed-activity response carrying a PanicError together with a nil error,
\* and the invoker has been closed exactly once (not before the recovery).
ActivityPanicRecovered ==
    activity.panicked =>
        /\ activity.result = [type |-> "RespondActivityTaskFailed",
                              reason |-> "PanicError"]
        /\ activity.err = "nil"
        /\ activity.panicCounter = 1
        /\ invoker.fault = "none"
        /\ activity.pc = "closing" => (invoker.closes = 0 /\ ~invoker.closed)
        /\ activity.pc = "returned" => (invoker.closes = 1 /\ invoker.closed)

\* Execute has returned after a panic of an implementation that had
\* heartbeated into an open batch window
PanickedExecuteReturned ==
    /\ activity.pc = "returned"
    /\ activity.panicked
    /\ Len(invoker.sent) >= 1
    /\ invoker.lastCall.open

\* C22: a Heartbeat call that makes the RPC (no batch window open) returns
\* the RPC's error as it is; when the error is a CanceledError or an
\* EntityNotExistsError the cancel handler is invoked once and a batch window
\* is opened; for any other error the cancel handler is not invoked and no
\* batch window is opened.
HeartbeatRpcStep(rpc) ==
    /\ invoker # <<>>
    /\ invoker.hbBatchEndTimer = "nil"
    /\ \/ ActivityHeartbeat(rpc)
       \/ \E k \in 1..Len(invoker.tasks) : TaskFlush(k, rpc)

CancelHandlerOnCancelErrors ==
    [][\A rpc \in RpcResults \ {"nil"} :
          HeartbeatRpcStep(rpc) =>
              /\ invoker'.lastCall.err = rpc
              /\ Len(invoker'.sent) = Len(invoker.sent) + 1
              /\ IF rpc \in {"CanceledError", "EntityNotExistsError"}
                 THEN /\ invoker'.cancels = invoker.cancels + 1
                      /\ invoker'.hbBatchEndTimer = "running"
                      /\ Len(invoker'.tasks) = Len(invoker.tasks) + 1
                 ELSE /\ invoker'.cancels = invoker.cancels
                      /\ invoker'.hbBatchEndTimer = "nil"
                      /\ Len(invoker'.tasks) = Len(invoker.tasks)]_vars

\* a heartbeat RPC has failed with a service error and a later one has
\* reported the cancellation, which opened a batch window
CancelReportedAfterError ==
    /\ invoker.cancels = 1
    /\ Len(invoker.sent) = 2
    /\ invoker.lastCall.err \in {"CanceledError", "EntityNotExistsError"}
    /\ invoker.hbBatchEndTimer = "running"
    /\ Len(invoker.tasks) = 1

(***************************************************************************)
(* The length of the batch window (lines 1270-1279), checked on its own    *)
(* over the heartbeat timeouts of an activity task.  Durations are in      *)
(* milliseconds.  Here invoker holds the timeout the invoker was           *)
(* constructed with, its timer and the duration the timer was created      *)
(* with.                                                                   *)
(***************************************************************************)
MaxTimeoutSec == 60

defaultHeartBeatIntervalInSec == 600

\* time.Second
Second == 1000

\* time.Duration(0.8*float32(deadlineToTrigger)) * time.Second: the
\* conversion of the float to time.Duration (an int64) drops the fraction
\* before the multiplication by time.Second.  (0.8 as a float32 is slightly
\* above 0.8 and the float32 product of a timeout of this size rounds to
\* the integer when 0.8 times the timeout is one, so the integer part is
\* that of 8 * deadlineToTrigger / 10.)
hbBatchWindow(heartBeatTimeoutInSec) ==
    LET deadlineToTrigger == IF heartBeatTimeoutInSec <= 0
                             THEN defaultHeartBeatIntervalInSec
                             ELSE heartBeatTimeoutInSec
    IN  ((8 * deadlineToTrigger) \div 10) * Second

WindowInit ==
    /\ config = [disableStickyExecution |-> FALSE, policy |-> "BlockWorkflow",
                 code |-> "same"]
    /\ workflowCache = [created |-> FALSE, entries |-> <<>>]
    /\ ctx = [c \in CtxIds |-> NilContext]
    /\ mutex = [c \in CtxIds |-> "free"]
    /\ thr = [t \in Threads |-> IdleThread]
    /\ evict = [c \in CtxIds |-> "none"]
    /\ resetQueue = [c \in CtxIds |-> 0]
    /\ crashed = "no"
    /\ tasksLeft = 0
    /\ reorder = <<>> /\ match = <<>> /\ activity = <<>> /\ sticky = <<>>
    /\ \E timeout \in -1..MaxTimeoutSec :
           invoker = [heartBeatTimeoutInSec |-> timeout,
                      hbBatchEndTimer |-> "nil", duration |-> 0, windows |-> 0]

\* a heartbeat RPC has succeeded or reported a cancellation: the timer of
\* the next batch window is created
OpenBatchWindow ==
    /\ invoker.hbBatchEndTimer = "nil" /\ invoker.windows = 0
    /\ invoker' = [invoker EXCEPT
                      !.hbBatchEndTimer = "running",
                      !.duration = hbBatchWindow(invoker.heartBeatTimeoutInSec),
                      !.windows = 1]
    /\ HbUnchanged

\* the timer fires after its duration and the window's task closes the window
BatchWindowEnds ==
    /\ invoker.hbBatchEndTimer = "running"
    /\ invoker' = [invoker EXCEPT !.hbBatchEndTimer = "nil"]
    /\ HbUnchanged

WindowNext == OpenBatchWindow \/ BatchWindowEnds

SpecWindow == WindowInit /\ [][WindowNext]_vars

\* C29: the batch window lasts 80% of the heartbeat timeout when the timeout
\* is positive, and then is strictly positive; it lasts 10 minutes when the
\* timeout is not set (<= 0).
BatchWindowEightyPercent ==
    invoker.windows = 1 =>
        IF invoker.heartBeatTimeoutInSec > 0
        THEN /\ 10 * invoker.duration = 8 * invoker.heartBeatTimeoutInSec * Second
             /\ invoker.duration > 0
        ELSE invoker.duration = 10 * 60 * Second

(***************************************************************************)
(* Creation of the sticky cache at worker startup (lines 322-355):         *)
(* goroutines that call getWorkflowCache and SetStickyWorkflowCacheSize    *)
(* concurrently.  sticky is                                                *)
(*   stickyCacheSize   the size setting                                    *)
(*   workflowCache     NoCache (nil) or the instance cache.New returned:   *)
(*                     its number and its capacity                         *)
(*   created           number of cache.New calls                           *)
(*   initCacheOnce     "new", "running" (a caller is inside Do), "done"    *)
(*   stickyCacheLock   "free" or the goroutine that holds it               *)
(*   callers           per goroutine: pc, the value getWorkflowCache       *)
(*                     returned last (0: none yet), calls made             *)
(* A panic of SetStickyWorkflowCacheSize ends the caller; the others go on *)
(* (the panic can be recovered; when it is not, the process ends there).   *)
(***************************************************************************)
Callers == {"w1", "w2", "w3"}
MaxStartupCalls == 2
StickySizes == {1, 2}

defaultStickyCacheSize == 10000

NoCache == [instance |-> 0, capacity |-> 0]

\* faulty variant: a caller that arrives while the function runs runs it too
OnceDoUnguarded(once) == IF once = "done" THEN "skip" ELSE "run"

\* what sync.Once.Do makes of a call: the first caller runs the function,
\* a caller that arrives while it runs waits, later callers skip it
OnceDo(once) ==
    CASE once = "new" -> "run"
      [] once = "running" -> "wait"
      [] OTHER -> "skip"

StartupInit ==
    /\ config = [disableStickyExecution |-> FALSE, policy |-> "BlockWorkflow",
                 code |-> "same"]
    /\ workflowCache = [created |-> FALSE, entries |-> <<>>]
    /\ ctx = [c \in CtxIds |-> NilContext]
    /\ mutex = [c \in CtxIds |-> "free"]
    /\ thr = [t \in Threads |-> IdleThread]
    /\ evict = [c \in CtxIds |-> "none"]
    /\ resetQueue = [c \in CtxIds |-> 0]
    /\ crashed = "no"
    /\ tasksLeft = 0
    /\ reorder = <<>> /\ match = <<>> /\ invoker = <<>> /\ activity = <<>>
    /\ sticky = [stickyCacheSize |-> defaultStickyCacheSize,
                 workflowCache |-> NoCache,
                 created |-> 0,
                 initCacheOnce |-> "new",
                 stickyCacheLock |-> "free",
                 callers |-> [c \in Callers |->
                                 [pc |-> "idle", ret |-> 0, calls |-> 0]]]

StartupUnchanged ==
    UNCHANGED <<config, workflowCache, ctx, mutex, thr, evict, resetQueue,
                crashed, tasksLeft, reorder, match, invoker, activity>>

\* faulty variant: the size is set whether the cache exists or not
SetSizeUnchecked(s, c, cacheSize) ==
    [s EXCEPT !.stickyCacheSize = cacheSize, !.callers[c].calls = @ + 1]

\* the state after SetStickyWorkflowCacheSize(cacheSize) by caller c, which
\* holds stickyCacheLock from its first line to its return
SetSize(s, c, cacheSize) ==
    IF s.workflowCache # NoCache
    THEN [s EXCEPT !.callers[c].pc = "panicked", !.callers[c].calls = @ + 1]
    ELSE [s EXCEPT !.stickyCacheSize = cacheSize, !.callers[c].calls = @ + 1]

SetStickyWorkflowCacheSize(c, cacheSize) ==
    /\ sticky.callers[c].pc = "idle"
    /\ sticky.callers[c].calls < MaxStartupCalls
    /\ sticky.stickyCacheLock = "free"
    /\ sticky' = SetSize(sticky, c, cacheSize)
    /\ StartupUnchanged

\* getWorkflowCache, line 345: the caller enters initCacheOnce.Do
CacheOnceDo(c) ==
    /\ sticky.callers[c].pc = "idle"
    /\ sticky.callers[c].calls < MaxStartupCalls
    /\ OnceDo(sticky.initCacheOnce) # "wait"
    /\ sticky' = IF OnceDo(sticky.initCacheOnce) = "run"
                 THEN [sticky EXCEPT !.initCacheOnce = "running",
                                     !.callers[c].pc = "lock",
                                     !.callers[c].calls = @ + 1]
                 ELSE [sticky EXCEPT !.callers[c].pc = "return",
                                     !.callers[c].calls = @ + 1]
    /\ StartupUnchanged

\* line 346: the function run by Do takes stickyCacheLock
CacheLock(c) ==
    /\ sticky.callers[c].pc = "lock"
    /\ sticky.stickyCacheLock = "free"
    /\ sticky' = [sticky EXCEPT !.stickyCacheLock = c,
                                !.callers[c].pc = "create"]
    /\ StartupUnchanged

\* lines 348-352 and the deferred Unlock: the cache is created with the
\* size setting as its capacity
CacheCreate(c) ==
    /\ sticky.callers[c].pc = "create"
    /\ sticky' = [sticky EXCEPT
                     !.workflowCache = [instance |-> sticky.created + 1,
                                        capacity |-> sticky.stickyCacheSize],
                     !.created = @ + 1,
                     !.stickyCacheLock = "free",
                     !.callers[c].pc = "done"]
    /\ StartupUnchanged

\* Do returns: the Once is done
CacheOnceDone(c) ==
    /\ sticky.callers[c].pc = "done"
    /\ sticky' = [sticky EXCEPT !.initCacheOnce = "done",
                                !.callers[c].pc = "return"]
    /\ StartupUnchanged

\* line 354: return workflowCache
CacheReturn(c) ==
    /\ sticky.callers[c].pc = "return"
    /\ sticky' = [sticky EXCEPT !.callers[c].ret = sticky.workflowCache.instance,
                                !.callers[c].pc = "idle"]
    /\ StartupUnchanged

StartupNext ==
    \/ \E c \in Callers, cacheSize \in StickySizes :
           SetStickyWorkflowCacheSize(c, cacheSize)
    \/ \E c \in Callers : CacheOnceDo(c)
    \/ \E c \in Callers : CacheLock(c)
    \/ \E c \in Callers : CacheCreate(c)
    \/ \E c \in Callers : CacheOnceDone(c)
    \/ \E c \in Callers : CacheReturn(c)

SpecStartup == StartupInit /\ [][StartupNext]_vars

\* C23: SetStickyWorkflowCacheSize called when the cache exists panics and
\* leaves the size setting and the cache as they are; called before, it
\* sets the size, and the cache is created with the size last set.
SizeSetOnlyBeforeCreation ==
    [][/\ \A c \in Callers, cacheSize \in StickySizes :
              SetStickyWorkflowCacheSize(c, cacheSize) =>
                  IF sticky.workflowCache # NoCache
                  THEN /\ sticky'.callers[c].pc = "panicked"
                       /\ sticky'.stickyCacheSize = sticky.stickyCacheSize
                       /\ sticky'.workflowCache = sticky.workflowCache
                  ELSE /\ sticky'.callers[c].pc = "idle"
                       /\ sticky'.stickyCacheSize = cacheSize
                       /\ sticky'.workflowCache = NoCache
       /\ \A c \in Callers :
              CacheCreate(c) =>
                  sticky'.workflowCache.capacity = sticky.stickyCacheSize]_vars

\* the size was set before the cache was created with it, and a later call
\* has panicked
SizeSetThenRefused ==
    /\ sticky # <<>>
    /\ sticky.workflowCache.capacity \in StickySizes
    /\ sticky.stickyCacheSize = sticky.workflowCache.capacity
    /\ \E c \in Callers : sticky.callers[c].pc = "panicked"

\* C24: whatever the interleaving of getWorkflowCache and
\* SetStickyWorkflowCacheSize calls, cache.New is called at most once, every
\* getWorkflowCache call returns that one instance (never nil), and the
\* instance's capacity is the size setting, which no call changes once the
\* cache exists.
OneCacheForAllCallers ==
    sticky # <<>> =>
        /\ sticky.created <= 1
        /\ sticky.workflowCache # NoCache =>
               /\ sticky.workflowCache.instance = 1
               /\ sticky.workflowCache.capacity = sticky.stickyCacheSize
        /\ \A c \in Callers :
               /\ sticky.callers[c].pc = "return" => sticky.workflowCache # NoCache
               /\ sticky.callers[c].ret # 0 =>
                      sticky.callers[c].ret = sticky.workflowCache.instance

\* every goroutine has got the cache, created with a size set at startup,
\* and a size set after that was refused
AllCallersGotTheCache ==
    /\ sticky # <<>>
    /\ \A c \in Callers : sticky.callers[c].ret = 1
    /\ sticky.workflowCache.capacity \in StickySizes
    /\ \E c \in Callers : sticky.callers[c].pc = "panicked"

(***************************************************************************)
(* CompleteDecisionTask and completeWorkflow (lines 751-782, 1091-1183)    *)
(* checked on their own over the states a context can be in when a pass    *)
(* ends: context 1 holds the current task (or none), the decisions made,   *)
(* the local activity tasks the workflow scheduled (none sent yet) and the *)
(* terminal state the completion callback left.  Goroutine t1 makes the    *)
(* calls, thr["t1"].resp is what the last call returned, and tasksLeft     *)
(* counts the calls still to make.                                         *)
(***************************************************************************)
MaxCompleteCalls == 3
MaxLaTasks == 2

\* err and isWorkflowCompleted are set together by the completion callback
TerminalStates ==
    {[isWorkflowCompleted |-> FALSE, err |-> "nil"]}
      \cup [isWorkflowCompleted : {TRUE},
            err : {"nil", "PanicError", "CanceledError", "ContinueAsNewError",
                   "CustomError"}]

CompleteTasks ==
    {NilTask} \cup {MkTask("r1", ServerHistory, 1, 3, q) : q \in BOOLEAN}

CompleteDecisions ==
    {createNewDecision("ScheduleActivityTask"), createNewDecision("StartTimer")}

ClosingDecisionTypes ==
    {"CancelWorkflowExecution", "ContinueAsNewWorkflowExecution",
     "FailWorkflowExecution", "CompleteWorkflowExecution"}

CompleteInit ==
    /\ config = [disableStickyExecution |-> FALSE, policy |-> "BlockWorkflow",
                 code |-> "same"]
    /\ workflowCache = [created |-> FALSE, entries |-> <<>>]
    /\ \E term \in TerminalStates, task \in CompleteTasks, tunnel \in BOOLEAN,
          la \in 0..MaxLaTasks,
          newDecisions \in SeqsUpTo(CompleteDecisions, 1),
          decisions \in SeqsUpTo(CompleteDecisions, 1) :
           ctx = [c \in CtxIds |->
                     IF c # 1 THEN NilContext
                     ELSE [NilContext EXCEPT
                              !.alloc = TRUE,
                              !.runID = "r1",
                              !.eventHandler =
                                  [newWorkflowExecutionEventHandler EXCEPT
                                      !.decisions = decisions,
                                      !.pendingLaTasks = la,
                                      !.unstartedLaTasks = la],
                              !.isWorkflowCompleted = term.isWorkflowCompleted,
                              !.err = term.err,
                              !.newDecisions = newDecisions,
                              !.currentDecisionTask = task,
                              !.laTunnel = tunnel]]
    /\ mutex = [c \in CtxIds |-> IF c = 1 THEN "t1" ELSE "free"]
    /\ thr = [t \in Threads |->
                 IF t = "t1" THEN [IdleThread EXCEPT !.pc = "process", !.wc = 1]
                 ELSE IdleThread]
    /\ evict = [c \in CtxIds |-> "none"]
    /\ resetQueue = [c \in CtxIds |-> 0]
    /\ crashed = "no"
    /\ tasksLeft = MaxCompleteCalls
    /\ AuxIdle

\* w.CompleteDecisionTask(waitLocalActivities)
CompleteCall(waitLocalActivities) ==
    LET r == CompleteDecisionTask(ctx[1], waitLocalActivities)
    IN  /\ tasksLeft > 0
        /\ ctx' = [ctx EXCEPT ![1] = r.w]
        /\ thr' = [thr EXCEPT !["t1"].resp = r.resp]
        /\ tasksLeft' = tasksLeft - 1
        /\ UNCHANGED <<config, workflowCache, mutex, evict, resetQueue, crashed>>
        /\ UNCHANGED aux

\* w.ProcessLocalActivityResult(lar) for a local activity task that was sent
\* to the tunnel
CompleteLaResult ==
    LET r == ProcessLocalActivityResult(ctx[1])
    IN  /\ tasksLeft > 0
        /\ ctx[1].laSent > 0
        /\ ctx' = [ctx EXCEPT ![1] = [r.w EXCEPT !.laSent = @ - 1]]
        /\ thr' = [thr EXCEPT !["t1"].resp = r.resp]
        /\ tasksLeft' = tasksLeft - 1
        /\ UNCHANGED <<config, workflowCache, mutex, evict, resetQueue, crashed>>
        /\ UNCHANGED aux

CompleteNext ==
    \/ \E waitLocalActivities \in BOOLEAN : CompleteCall(waitLocalActivities)
    \/ CompleteLaResult

SpecComplete == CompleteInit /\ [][CompleteNext]_vars

\* C25: CompleteDecisionTask(true) returns nil and changes nothing when
\* there is no current task; with a current task, pending local activity
\* work and a tunnel it returns nil, keeps the current task and has sent
\* every unstarted local activity task to the tunnel.
WaitsForLocalActivities ==
    [][CompleteCall(TRUE) =>
          /\ ctx[1].currentDecisionTask.nil =>
                 (thr'["t1"].resp = NilResponse /\ ctx' = ctx)
          /\ (/\ ~ctx[1].currentDecisionTask.nil
              /\ hasPendingLocalActivityWork(ctx[1])
              /\ ctx[1].laTunnel) =>
                 /\ thr'["t1"].resp = NilResponse
                 /\ ctx'[1].currentDecisionTask = ctx[1].currentDecisionTask
                 /\ ctx'[1].eventHandler.unstartedLaTasks = 0
                 /\ ctx'[1].laSent =
                        ctx[1].laSent + ctx[1].eventHandler.unstartedLaTasks]_vars

\* the first call has returned nil with the task kept and both local
\* activity tasks sent
LocalActivitiesSentTaskKept ==
    /\ tasksLeft = MaxCompleteCalls - 1
    /\ thr["t1"].pc = "process"
    /\ thr["t1"].resp = NilResponse
    /\ ~ctx[1].currentDecisionTask.nil
    /\ ctx[1].laSent = MaxLaTasks
    /\ ctx[1].eventHandler.unstartedLaTasks = 0
    /\ ctx[1].eventHandler.pendingLaTasks = MaxLaTasks

\* C26: the response completeWorkflow builds for the context's terminal
\* state: a query task gets a RespondQueryTaskCompleted (Failed, with the
\* workflow-panic message, on a panic); otherwise a panic gets a
\* RespondDecisionTaskFailed with cause WorkflowWorkerUnhandledFailure and no
\* decisions; otherwise the decisions are the context's decisions followed
\* by one closing decision (Cancel for a CanceledError, ContinueAsNew for a
\* ContinueAsNewError, Fail for any other error, Complete for a completed
\* workflow without error), or by none when the workflow has not ended.
ClosingTypeFor(w) ==
    CASE w.err = "CanceledError" -> "CancelWorkflowExecution"
      [] w.err = "ContinueAsNewError" -> "ContinueAsNewWorkflowExecution"
      [] w.err \notin {"nil", "CanceledError", "ContinueAsNewError"} ->
             "FailWorkflowExecution"
      [] OTHER -> IF w.isWorkflowCompleted THEN "CompleteWorkflowExecution"
                  ELSE "none"

ResponseFor(w, resp) ==
    LET made == w.newDecisions \o w.eventHandler.decisions
        closing == ClosingTypeFor(w)
    IN  IF w.currentDecisionTask.query
        THEN /\ resp.kind = "RespondQueryTaskCompleted"
             /\ w.err = "PanicError" =>
                    (resp.completedType = "Failed"
                         /\ resp.errorMessage = "Workflow panic: ")
        ELSE IF w.err = "PanicError"
        THEN /\ resp.kind = "RespondDecisionTaskFailed"
             /\ resp.cause = "WorkflowWorkerUnhandledFailure"
             /\ resp.decisions = <<>>
        ELSE /\ resp.kind = "RespondDecisionTaskCompleted"
             /\ IF closing = "none"
                THEN resp.decisions = made
                ELSE /\ Len(resp.decisions) = Len(made) + 1
                     /\ SubSeq(resp.decisions, 1, Len(made)) = made
                     /\ resp.decisions[Len(resp.decisions)].type = closing
             /\ \A i \in 1..Len(made) :
                    resp.decisions[i].type \notin ClosingDecisionTypes

TerminalStateDecidesResponse ==
    [][\A waitLocalActivities \in BOOLEAN :
          (CompleteCall(waitLocalActivities) /\ thr'["t1"].resp.kind # "nil")
              => ResponseFor(ctx[1], thr'["t1"].resp)]_vars

\* a cancelled workflow was closed by a CancelWorkflowExecution decision
\* after the two decisions the context held
CancelClosesAfterDecisions ==
    /\ thr["t1"].pc = "process"
    /\ thr["t1"].resp.kind = "RespondDecisionTaskCompleted"
    /\ Len(thr["t1"].resp.decisions) = 3
    /\ thr["t1"].resp.decisions[3].type = "CancelWorkflowExecution"
    /\ ctx[1].err = "CanceledError"

\* C30: a RespondDecisionTaskCompleted has return_new_decision_task set;
\* its force_create_new_decision_task is NOT waitLocalActivities, but false
\* when the response carries a closing decision; the responses of
\* ProcessLocalActivityResult, which like ProcessWorkflowTask completes with
\* waitLocalActivities = true, have it false.
HasClosingDecision(resp) ==
    \E i \in 1..Len(resp.decisions) : resp.decisions[i].type \in ClosingDecisionTypes

ForceNewDecisionOnlyWithoutWait ==
    [][/\ \A waitLocalActivities \in BOOLEAN :
              (/\ CompleteCall(waitLocalActivities)
               /\ thr'["t1"].resp.kind = "RespondDecisionTaskCompleted") =>
                  /\ thr'["t1"].resp.returnNewDecisionTask
                  /\ thr'["t1"].resp.forceCreateNewDecisionTask =
                         IF HasClosingDecision(thr'["t1"].resp) THEN FALSE
                         ELSE ~waitLocalActivities
       /\ (/\ CompleteLaResult
           /\ thr'["t1"].resp.kind = "RespondDecisionTaskCompleted") =>
              /\ thr'["t1"].resp.returnNewDecisionTask
              /\ ~thr'["t1"].resp.forceCreateNewDecisionTask]_vars

\* a task was completed without waiting for its local activities: the
\* response asks for a new decision task to be created
NewDecisionTaskForced ==
    /\ thr["t1"].pc = "process"
    /\ thr["t1"].resp.kind = "RespondDecisionTaskCompleted"
    /\ thr["t1"].resp.forceCreateNewDecisionTask
    /\ thr["t1"].resp.returnNewDecisionTask
    /\ ctx[1].eventHandler.pendingLaTasks > 0

\* C28: in the ProcessEvents loop the non-marker events of a batch are
\* passed to ProcessEvent in batch order, each with isInReplay = (its id is
\* at most the task's previousStartedEventId, or it is a decision event) and
\* with isLast set only for the batch's final event when that is not a
\* replay event; the decisions made while a batch is processed are added to
\* the replay decisions only when the batch's final event is a replay event.
BatchFinalIsReplay(k) ==
    LET b == reorder.batches[k]
    IN  \/ b[Len(b)].id <= reorder.eh.previousStartedEventId
        \/ isDecisionEvent(b[Len(b)].type)

BatchFlagsRight(k) ==
    LET b == reorder.batches[k]
        NotMarkerCall(c) == c.event.type # MarkerRecorded
        NotMarkerEvent(e) == e.type # MarkerRecorded
        passed == SelectSeq(reorder.calls[k], NotMarkerCall)
    IN  /\ [i \in 1..Len(passed) |-> passed[i].event] = SelectSeq(b, NotMarkerEvent)
        /\ \A i \in 1..Len(passed) :
               /\ passed[i].isInReplay =
                      (\/ passed[i].event.id <= reorder.eh.previousStartedEventId
                       \/ isDecisionEvent(passed[i].event.type))
               /\ passed[i].isLast =
                      (passed[i].event = b[Len(b)] /\ ~passed[i].isInReplay)

ReplayFlagsAndDecisions ==
    reorder # <<>> =>
        \A k \in 1..Len(reorder.batches) :
            /\ BatchFlagsRight(k)
            /\ reorder.collected[k] # <<>> =>
                   (BatchFinalIsReplay(k) /\ reorder.collected[k] = reorder.produced[k])
            /\ (BatchFinalIsReplay(k) /\ isFullHistory(reorder.events)) =>
                   reorder.collected[k] = reorder.produced[k]

\* a full history has been replayed: the decision of a replayed batch was
\* collected, the decision of the last batch (its DecisionTaskStarted is
\* new and was passed as the last event) was not
ReplayedThenNewBatch ==
    /\ reorder # <<>>
    /\ reorder.done
    /\ Len(reorder.batches) >= 2
    /\ reorder.collected[1] # <<>>
    /\ LET k == Len(reorder.batches)
           calls == reorder.calls[k]
       IN  /\ calls[Len(calls)].isLast
           /\ calls[Len(calls)].event.type = DTStarted
           /\ reorder.produced[k] # <<>>
           /\ reorder.collected[k] = <<>>

(***************************************************************************)
(* Lock balance of workflowTaskHandlerImpl.ProcessWorkflowTask.            *)
(***************************************************************************)

\* C31: on every return path of workflowTaskHandlerImpl.ProcessWorkflowTask
\* the context mutex the call acquired has been released: no mutex is held
\* by a call that has returned, and a goroutine that holds a mutex is still
\* inside the call on that context
LockBalancedOnReturn ==
    \A c \in CtxIds :
        /\ mutex[c] # "leaked"
        /\ mutex[c] \in Threads =>
               (thr[mutex[c]].pc # "idle" /\ thr[mutex[c]].wc = c)

(***************************************************************************)
(* The sticky cache is created before getOrCreateWorkflowContext reads it. *)
(***************************************************************************)

\* C35: for every order of incoming tasks getOrCreateWorkflowContext never
\* reads the size of a cache that has not been created: the deferred read
\* of workflowCache.Size() never finds a nil workflowCache
CacheCreatedBeforeRead == crashed # "nil workflowCache"

(***************************************************************************)
(* Methods that dereference the event handler, on a destroyed context.     *)
(***************************************************************************)

\* C33: in every interleaving of task processing, Unlock-triggered removal,
\* LRU eviction and local-activity completion, ProcessLocalActivityResult
\* and CompleteDecisionTask never run on a context whose event handler is
\* nil: no call dereferences a nil event handler
HandlerLiveWhenDereferenced ==
    /\ crashed # "nil eventHandler"
    /\ \A t \in Threads : thr[t].pc = "process" => ~isDestroyed(ctx[thr[t].wc])

(***************************************************************************)
(* What Unlock removes from the sticky cache.                              *)
(***************************************************************************)

\* C37: Unlock removes from the sticky cache only the context being
\* unlocked: a context that is cached before an Unlock of another context
\* (one that was never inserted, also of the same run id) is still cached
\* after it
UnlockRemovesOnlyItself ==
    [][\A t \in Threads :
           Unlock(t) =>
               \A i \in 1..Len(workflowCache.entries) :
                   workflowCache.entries[i] # thr[t].wc =>
                       \E j \in 1..Len(workflowCache'.entries) :
                           workflowCache'.entries[j] = workflowCache.entries[i]]_vars

(***************************************************************************)
(* The order of the heartbeat details that reach the service.              *)
(***************************************************************************)

\* C34: in every interleaving of the activity's Heartbeat calls with the
\* flush of the batch-timer task, no RecordActivityHeartbeat RPC carries
\* details that were reported earlier than details already sent by a
\* previous RPC (the n-th call reports details n)
HeartbeatsSentInOrder ==
    invoker # <<>> =>
        \A a, b \in 1..Len(invoker.sent) :
            a < b => invoker.sent[a] <= invoker.sent[b]

(***************************************************************************)
(* The responses of one context over several tasks (specification          *)
(* SpecRespond): the calls of SpecComplete, and ProcessWorkflowTask        *)
(* setting the next task of the context (line 635).  A new pass starts     *)
(* with no response returned yet.                                          *)
(***************************************************************************)
RespondSetCurrentTask(task) ==
    /\ tasksLeft > 0
    /\ ctx' = [ctx EXCEPT ![1] = SetCurrentTask(ctx[1], task)]
    /\ thr' = [thr EXCEPT !["t1"].resp = NilResponse]
    /\ tasksLeft' = tasksLeft - 1
    /\ UNCHANGED <<config, workflowCache, mutex, evict, resetQueue, crashed>>
    /\ UNCHANGED aux

RespondNext ==
    \/ \E waitLocalActivities \in BOOLEAN : CompleteCall(waitLocalActivities)
    \/ CompleteLaResult
    \/ \E task \in CompleteTasks \ {NilTask} : RespondSetCurrentTask(task)

SpecRespond == CompleteInit /\ [][RespondNext]_vars

\* C36: at most one response per task.  A call of CompleteDecisionTask or
\* ProcessLocalActivityResult returns a response only if a current task is
\* set, and the call that returns a response clears the current task and
\* the accumulated decisions; so a further call returns nil until
\* SetCurrentTask sets a new task, and only SetCurrentTask sets one.
AtMostOneResponsePerTask ==
    [][/\ \A waitLocalActivities \in BOOLEAN :
              (CompleteCall(waitLocalActivities) \/ CompleteLaResult) =>
                  /\ ctx[1].currentDecisionTask.nil => thr'["t1"].resp = NilResponse
                  /\ thr'["t1"].resp # NilResponse =>
                         /\ ctx'[1].currentDecisionTask.nil
                         /\ ctx'[1].newDecisions = <<>>
       /\ (~ctx'[1].currentDecisionTask.nil
             /\ ctx'[1].currentDecisionTask # ctx[1].currentDecisionTask) =>
              \E task \in CompleteTasks \ {NilTask} : RespondSetCurrentTask(task)]_vars

\* SetCurrentTask set a decision task, a call sent its local activity tasks
\* and returned the response (the current task is cleared), and the call
\* after it, the last one, returned nil
AnsweredThenNil ==
    /\ tasksLeft = 0
    /\ thr["t1"].resp = NilResponse
    /\ ctx[1].currentDecisionTask.nil
    /\ ctx[1].previousStartedEventID = 3
    /\ ctx[1].eventHandler.decisions = <<>>
    /\ ctx[1].laSent > 0

(***************************************************************************)
(* The batches of NextDecisionEvents and the paging of the history.        *)
(***************************************************************************)
\* the (events, markers) batches that repeated calls of NextDecisionEvents
\* return, up to the empty batch
RECURSIVE AllBatches(_)
BatchThenRest(nd) ==
    IF Len(nd.result) = 0 THEN <<>>
    ELSE <<[events |-> nd.result, markers |-> nd.markers]>> \o AllBatches(nd.eh)

AllBatches(eh) == BatchThenRest(NextDecisionEvents(eh))

\* the batches of the same events when the task carries them in one page
SinglePageBatches ==
    AllBatches(newHistory(ReorderTask(reorder.events, Len(reorder.events),
                                      reorder.eh.previousStartedEventId)))

\* C32: for a fixed history the sequence of (events, markers) batches that
\* NextDecisionEvents returns is the same for every split of the history
\* into the task's first page and the iterator's later pages: when the loop
\* has ended, the batches it got (and the calls made from their events and
\* markers) are those of the history carried in a single page
BatchesIndependentOfPaging ==
    (reorder # <<>> /\ reorder.done) =>
        LET ref == SinglePageBatches
        IN  /\ Len(reorder.batches) = Len(ref)
            /\ \A k \in 1..Len(ref) :
                   /\ reorder.batches[k] = ref[k].events
                   /\ [i \in 1..Len(reorder.calls[k]) |-> reorder.calls[k][i].event]
                          = BatchCalls(ref[k].events, ref[k].markers)

(***************************************************************************)
(* Termination of the replay (specifications SpecPaging, FairSpecPaging):  *)
(* the ProcessEvents loop of ProcessWorkflowTask over a full history whose *)
(* iterator also hands out empty pages, one step per turn of the loops of  *)
(* nextDecisionEvents.  reorder holds the history object eh and            *)
(*   pc          "loop" (the ProcessEvents loop is about to call           *)
(*               NextDecisionEvents), "enter" (nextDecisionEvents was      *)
(*               called), "order" (inside its OrderEvents loop)            *)
(*   which       the call of nextDecisionEvents that NextDecisionEvents    *)
(*               is making: 1 (eh.next was nil), 2 (the look-ahead)        *)
(*   nextEvents, markers   the locals of nextDecisionEvents                *)
(*   result      the local of NextDecisionEvents                           *)
(*   batches     the non-empty batches the loop got                        *)
(*   done        the loop got an empty batch and ended                     *)
(* The loop runs in one goroutine, which goes on until it returns.         *)
(***************************************************************************)
MaxPagingRounds == 2
MaxEmptyPages == 2

PagingHistories ==
    {NamedEvents(<<Named(WES, "")>> \o ReorderRounds(rounds) \o tail) :
        rounds \in UNION {[1..n -> ReorderRoundKinds] : n \in 0..MaxPagingRounds},
        tail \in {<<>>, <<Named(DTScheduled, ""), Named(DTStarted, "")>>}}

\* k empty pages after page at
WithEmptyPages(pages, at, k) ==
    SubSeq(pages, 1, at) \o [i \in 1..k |-> <<>>] \o SubSeq(pages, at + 1, Len(pages))

PagingTask(events, size, at, k) ==
    [ReorderTask(events, size, 0) EXCEPT
        !.it.pages = WithEmptyPages(Paged(events, size), at, k)]

PagingInit ==
    /\ config = [disableStickyExecution |-> FALSE, policy |-> "BlockWorkflow",
                 code |-> "same"]
    /\ workflowCache = [created |-> FALSE, entries |-> <<>>]
    /\ ctx = [c \in CtxIds |-> NilContext]
    /\ mutex = [c \in CtxIds |-> "free"]
    /\ thr = [t \in Threads |-> IdleThread]
    /\ evict = [c \in CtxIds |-> "none"]
    /\ resetQueue = [c \in CtxIds |-> 0]
    /\ crashed = "no"
    /\ tasksLeft = 0
    /\ match = <<>> /\ invoker = <<>> /\ activity = <<>> /\ sticky = <<>>
    /\ \E events \in PagingHistories : \E size \in 1..Len(events) :
           \E at \in 1..Len(Paged(events, size)), k \in 0..MaxEmptyPages :
               /\ k = 0 => at = 1
               /\ reorder = [events |-> events,
                             eh |-> newHistory(PagingTask(events, size, at, k)),
                             pc |-> "loop", which |-> 0,
                             nextEvents |-> NilSlice, markers |-> <<>>,
                             result |-> <<>>, batches |-> <<>>, done |-> FALSE]

PagingUnchanged ==
    UNCHANGED <<config, workflowCache, ctx, mutex, thr, evict, resetQueue,
                crashed, tasksLeft, match, invoker, activity, sticky>>

\* NextDecisionEvents once eh.next is set: an empty result is returned (the
\* ProcessEvents loop ends), for another the look-ahead call is made
PagingResult(r) ==
    IF Len(r.eh.next.ev) > 0
    THEN [r EXCEPT !.result = r.eh.next.ev, !.pc = "enter", !.which = 2]
    ELSE [r EXCEPT !.result = <<>>, !.pc = "loop", !.which = 0, !.done = TRUE]

\* nextDecisionEvents returns (nextEvents, markers) with the history eh: the
\* first call sets eh.next; the look-ahead sets eh.next and NextDecisionEvents
\* returns (result, markers) to the ProcessEvents loop
PagingReturn(r, eh, nextEvents, markers) ==
    LET back == [r EXCEPT !.eh = [eh EXCEPT !.next = nextEvents],
                          !.nextEvents = NilSlice, !.markers = <<>>]
    IN  IF r.which = 1 THEN PagingResult(back)
        ELSE [back EXCEPT !.batches = Append(@, [events |-> r.result,
                                                 markers |-> markers]),
                          !.result = <<>>, !.pc = "loop", !.which = 0]

\* the end of nextDecisionEvents after its loop: the loaded events are shrunk
PagingShrink(eh) ==
    [eh EXCEPT !.loadedEvents = SubSeq(eh.loadedEvents, eh.currentIndex + 1,
                                       Len(eh.loadedEvents)),
               !.currentIndex = 0]

\* faulty variant: a skipped event is not stepped over
PagingSkipStays(eh) == eh

\* eh.currentIndex++ at the end of a turn of the OrderEvents loop
PagingSkip(eh) == [eh EXCEPT !.currentIndex = @ + 1]

\* the ProcessEvents loop calls NextDecisionEvents
PagingNextDecisionEvents ==
    /\ ~reorder.done /\ reorder.pc = "loop"
    /\ reorder' = IF reorder.eh.next.nil
                  THEN [reorder EXCEPT !.pc = "enter", !.which = 1]
                  ELSE PagingResult(reorder)
    /\ PagingUnchanged

\* the first statement of nextDecisionEvents: nothing loaded is left and
\* there is no further page, or the OrderEvents loop starts
PagingEnter ==
    /\ reorder.pc = "enter"
    /\ reorder' = IF /\ reorder.eh.currentIndex = Len(reorder.eh.loadedEvents)
                     /\ ~hasMoreEvents(reorder.eh)
                  THEN PagingReturn(reorder, reorder.eh, Slice(<<>>), <<>>)
                  ELSE [reorder EXCEPT !.pc = "order", !.nextEvents = NilSlice,
                                       !.markers = <<>>]
    /\ PagingUnchanged

\* a turn of the loop that loads more events: the next page is appended
PagingLoadPage ==
    /\ reorder.pc = "order"
    /\ reorder.eh.currentIndex = Len(reorder.eh.loadedEvents)
    /\ hasMoreEvents(reorder.eh)
    /\ LET got == IterGetNextPage(reorder.eh.it)
       IN  reorder' = [reorder EXCEPT !.eh.it = got.it,
                                      !.eh.loadedEvents = @ \o got.page]
    /\ PagingUnchanged

\* nothing loaded is left and there is no further page: break OrderEvents
PagingBreak ==
    /\ reorder.pc = "order"
    /\ reorder.eh.currentIndex = Len(reorder.eh.loadedEvents)
    /\ ~hasMoreEvents(reorder.eh)
    /\ reorder' = PagingReturn(reorder, PagingShrink(reorder.eh),
                               reorder.nextEvents, reorder.markers)
    /\ PagingUnchanged

\* a turn of the OrderEvents loop on the event at currentIndex
PagingOrderEvent ==
    /\ reorder.pc = "order"
    /\ reorder.eh.currentIndex < Len(reorder.eh.loadedEvents)
    /\ LET eh == reorder.eh
           event == eh.loadedEvents[eh.currentIndex + 1]
       IN  reorder' =
               IF event.type = DTStarted
               THEN IF ~IsNextDecisionFailed(eh)
                    THEN PagingReturn(reorder,
                                      PagingShrink([eh EXCEPT !.currentIndex = @ + 1]),
                                      Slice(Append(reorder.nextEvents.ev, event)),
                                      reorder.markers)
                    ELSE [reorder EXCEPT !.eh = PagingSkip(eh)]
               ELSE IF event.type \in {DTCompleted, DTScheduled, DTTimedOut, DTFailed}
               THEN [reorder EXCEPT !.eh = PagingSkip(eh)]
               ELSE [reorder EXCEPT
                        !.eh.currentIndex = @ + 1,
                        !.nextEvents = Slice(Append(@.ev, event)),
                        !.markers = IF isPreloadMarkerEvent(event)
                                    THEN Append(@, event) ELSE @]
    /\ PagingUnchanged

PagingNext ==
    \/ PagingNextDecisionEvents
    \/ PagingEnter
    \/ PagingLoadPage
    \/ PagingBreak
    \/ PagingOrderEvent

SpecPaging == PagingInit /\ [][PagingNext]_vars

FairSpecPaging == PagingInit /\ [][PagingNext]_vars /\ WF_vars(PagingNext)

\* every page of the iterator was handed out and every loaded event passed
PagesConsumed ==
    /\ reorder.eh.it.pos = Len(reorder.eh.it.pages)
    /\ reorder.eh.currentIndex = Len(reorder.eh.loadedEvents)
    /\ reorder.eh.next.ev = <<>>

\* C38: for every finite history delivered in finitely many pages, empty
\* pages included, repeated calls of NextDecisionEvents eventually return an
\* empty batch and the replay loop ends; every batch returned before it is
\* non-empty, currentIndex stays within 0..len(loadedEvents), and when the
\* loop has ended every page and every loaded event has been consumed
ReplayTerminates ==
    /\ <>(reorder # <<>> /\ reorder.done)
    /\ [](reorder # <<>> =>
            /\ reorder.eh.currentIndex \in 0..Len(reorder.eh.loadedEvents)
            /\ \A k \in 1..Len(reorder.batches) : reorder.batches[k].events # <<>>
            /\ reorder.done => PagesConsumed)

\* the loop has ended on a history of several batches whose iterator handed
\* out two empty pages one after the other between two pages with events
ReplayEndedOverEmptyPages ==
    /\ reorder # <<>> /\ reorder.done
    /\ Len(reorder.batches) >= 2
    /\ LET pages == reorder.eh.it.pages
       IN  \E i \in 2..(Len(pages) - 2) :
               pages[i] = <<>> /\ pages[i + 1] = <<>> /\ pages[i + 2] # <<>>

\* the steps of the loops give the batches of NextDecisionEvents
PagingStepsAreNextDecisionEvents ==
    (reorder # <<>> /\ reorder.done) =>
        reorder.batches =
            AllBatches(newHistory([ReorderTask(reorder.events, 1, 0) EXCEPT
                                      !.events = reorder.eh.it.pages[1],
                                      !.it.pages = reorder.eh.it.pages]))

=============================================================================
